---------------------------- MODULE Spec2Model ----------------------------
(***************************************************************************)
(* Kernel live patching core (kernel/livepatch/core.c), the variant built *)
(* without ftrace: patches are applied by rewriting the first bytes of    *)
(* the old function inside a stop_machine() rendezvous.                   *)
(*                                                                         *)
(* The registry operations klp_register_patch, enabled_store and          *)
(* klp_unregister_patch run under klp_mutex; each is one action here, and *)
(* the action computes the whole call: validation, initialisation, node   *)
(* preparation, the elected CPU's work in the rendezvous and every        *)
(* roll-back the code performs on failure.                                *)
(***************************************************************************)
EXTENDS Integers, Sequences, FiniteSets, TLC

VARIABLES
    config,         \* the build options the code is compiled with
    klp_patches,    \* LIST_HEAD(klp_patches): patches in list order
    patch,          \* struct klp_patch of every patch identity
    klp_func_list,  \* LIST_HEAD(klp_func_list): the Function-Site nodes
    mod_refs,       \* reference counts the core holds on modules
    last,           \* the last call made and what it returned
    pd,             \* struct patch_data of the stop_machine() run in flight
    cpu,            \* where every online CPU is in the function it runs
    ran,            \* which CPU ran which step of the elected CPU's work
    retired,        \* nodes taken off klp_func_list by list_del_rcu
    writer,         \* where klp_mem_recycle is in func_node_free
    reader,         \* the lock-free lookups of klp_find_func_node under way
    resolver,       \* a symbol table, a query put to it and its answer
    klp_mutex,      \* DEFINE_MUTEX(klp_mutex): the caller that holds it, or 0
    caller,         \* the call every caller is in and where it is in it
    kobj,           \* patch->kobj and patch->finish of every patch
    klp_transition_patch,   \* the patch in transition (with ftrace), or 0
    klp_target_state,       \* the side the transition goes to
    task,           \* task->patch_state of every task
    transition,     \* func->transition of the functions of every patch
    forced,         \* patch->forced of every patch
    klp_alive,      \* mod->klp_alive of every target module
    relocs,         \* the objects whose relocations are written
    heap,           \* the Function-Site nodes as the allocator sees them
    turn,           \* *turn, the shared word of the alternation exercise
    proc,           \* its two processes
    file            \* testfile.txt, one entry per write

vars == <<config, klp_patches, patch, klp_func_list, mod_refs, last,
          pd, cpu, ran, retired, writer, reader, resolver,
          klp_mutex, caller, kobj,
          klp_transition_patch, klp_target_state, task, transition,
          forced, klp_alive, relocs, heap, turn, proc, file>>

\* The registry the calls work on, and the state of the lock-free lookups.
registry == <<klp_patches, patch, klp_func_list, mod_refs>>

lookups == <<retired, writer, reader>>

\* The state of the specifications that stand apart from the registry.
sync == <<klp_mutex, caller, kobj>>

gradual == <<klp_transition_patch, klp_target_state, task, transition,
             forced, klp_alive, relocs>>

exercise == <<turn, proc, file>>

apart == <<resolver, sync, gradual, heap, exercise>>

-----------------------------------------------------------------------------
(* Bounds and the fixed environment                                        *)

\* Number of patch identities (struct klp_patch instances) in the system.
NPatches == 2

Patches == 1 .. NPatches

\* Minimum number of bytes of the old function that are rewritten in place.
KLP_MAX_REPLACE_SIZE == 2

NULL == "NULL"

OK == "OK"

\* The symbol table kallsyms walks, in table order.  obj is NULL for the
\* base image and the module name otherwise.  "dup" occurs twice and "tiny"
\* is shorter than the in-place footprint.
SymTab ==
    << [obj |-> NULL, name |-> "foo",  addr |-> 10, size |-> 4],
       [obj |-> NULL, name |-> "dup",  addr |-> 20, size |-> 4],
       [obj |-> NULL, name |-> "dup",  addr |-> 30, size |-> 4],
       [obj |-> NULL, name |-> "tiny", addr |-> 40, size |-> 1],
       [obj |-> "m1", name |-> "mfoo", addr |-> 60, size |-> 4],
       [obj |-> NULL, name |-> "neg",  addr |-> 70, size |-> -1],
       [obj |-> NULL, name |-> "nosz", addr |-> 80, size |-> 4],
       [obj |-> "m3", name |-> "mbar", addr |-> 90, size |-> 4] >>

\* Addresses of symbols for which kallsyms_lookup_size_offset finds no size.
Unsized == {SymTab[7].addr}

\* Target modules known to find_module() and their state.  A module that is
\* not listed is not loaded.
ModuleState == [m1 |-> "MODULE_STATE_LIVE", m3 |-> "MODULE_STATE_COMING"]

TargetModules == DOMAIN ModuleState

\* The module that carries patch p (patch->mod).
PatchMod(p) == p

\* Replacement functions live in the patch module: the k-th replacement
\* function of patch p.  Every one of them is known to kallsyms.
NewFunc(p, k) == 100 * p + 10 * k

IsNewFunc(a) == a >= 100

-----------------------------------------------------------------------------
(* Patch descriptors: what the caller hands to klp_register_patch          *)

KLP_NORMAL_FORCE == "KLP_NORMAL_FORCE"
KLP_ENFORCEMENT == "KLP_ENFORCEMENT"
KLP_STACK_OPTIMIZE == "KLP_STACK_OPTIMIZE"

\* One entry of an object's funcs array.
F(old_name, old_sympos, new_func, nop, force) ==
    [old_name |-> old_name, old_sympos |-> old_sympos, new_func |-> new_func,
     nop |-> nop, force |-> force]

\* A pointer to a static array: the NULL pointer, or the entries the array
\* holds before its terminating entry.
NullArr == [null |-> TRUE, ent |-> << >>]

Arr(s) == [null |-> FALSE, ent |-> s]

\* One entry of a patch's objs array (name NULL: the base image).
O(name, funcs) == [name |-> name, funcs |-> funcs]

\* A descriptor; mod is NULL, "plain" (not a livepatch module) or "klp".
D(mod, objs) == [mod |-> mod, objs |-> objs]

FooFn(p) == F("foo", 0, NewFunc(p, 1), FALSE, KLP_NORMAL_FORCE)

MFooFn(p) == F("mfoo", 0, NewFunc(p, 2), FALSE, KLP_NORMAL_FORCE)

Vmlinux(funcs) == O(NULL, Arr(funcs))

\* The well-formed descriptor of patch p.  Every patch replaces foo of the
\* base image, so that patches stack on one address; every second patch
\* also replaces mfoo of module m1.
ValidDescriptors(p) ==
    IF p % 2 = 1
    THEN { D("klp", Arr(<< Vmlinux(<< FooFn(p) >>) >>)) }
    ELSE { D("klp", Arr(<< Vmlinux(<< FooFn(p) >>),
                           O("m1", Arr(<< MFooFn(p) >>)) >>)) }

\* Descriptors that break a shape rule or cannot be initialised: no module,
\* not a livepatch module, objs NULL, objs empty, funcs NULL, funcs empty,
\* no old name, neither new_func nor nop, nop without new_func, ambiguous
\* symbol, unknown symbol, function too short, function of negative size,
\* function of unknown size after a good one, module not loaded, module
\* still coming.
BadDescriptors(p) ==
    { D(NULL, Arr(<< Vmlinux(<< FooFn(p) >>) >>)),
      D("plain", Arr(<< Vmlinux(<< FooFn(p) >>) >>)),
      D("klp", NullArr),
      D("klp", Arr(<< >>)),
      D("klp", Arr(<< O("m1", NullArr) >>)),
      D("klp", Arr(<< Vmlinux(<< FooFn(p) >>), O("m1", Arr(<< >>)) >>)),
      D("klp", Arr(<< Vmlinux(<< F(NULL, 0, NewFunc(p, 1), FALSE,
                                   KLP_NORMAL_FORCE) >>) >>)),
      D("klp", Arr(<< Vmlinux(<< F("foo", 0, 0, FALSE,
                                   KLP_NORMAL_FORCE) >>) >>)),
      D("klp", Arr(<< Vmlinux(<< F("foo", 0, 0, TRUE,
                                   KLP_NORMAL_FORCE) >>) >>)),
      D("klp", Arr(<< Vmlinux(<< F("dup", 0, NewFunc(p, 1), FALSE,
                                   KLP_NORMAL_FORCE) >>) >>)),
      D("klp", Arr(<< Vmlinux(<< F("gone", 0, NewFunc(p, 1), FALSE,
                                   KLP_NORMAL_FORCE) >>) >>)),
      D("klp", Arr(<< Vmlinux(<< F("tiny", 0, NewFunc(p, 1), FALSE,
                                   KLP_NORMAL_FORCE) >>) >>)),
      D("klp", Arr(<< Vmlinux(<< F("neg", 0, NewFunc(p, 1), FALSE,
                                   KLP_NORMAL_FORCE) >>) >>)),
      D("klp", Arr(<< Vmlinux(<< FooFn(p),
                                 F("nosz", 0, NewFunc(p, 2), FALSE,
                                   KLP_NORMAL_FORCE) >>) >>)),
      D("klp", Arr(<< O("m1", Arr(<< MFooFn(p) >>)),
                      O("m2", Arr(<< MFooFn(p) >>)) >>)),
      D("klp", Arr(<< O("m3", Arr(<< F("mbar", 0, NewFunc(p, 2), FALSE,
                                        KLP_NORMAL_FORCE) >>)) >>)) }

Descriptors(p) == ValidDescriptors(p) \cup BadDescriptors(p)

-----------------------------------------------------------------------------
(* Symbol resolution                                                       *)

\* Body applied to the value v: LET x == v IN Body(x) with v written once.
Let(v, Body(_)) == Body(v)

\* klp_match_callback: record the address, count the match, and stop the
\* walk (return 1) at the wanted position or at a second match when no
\* position was asked for.
klp_match_callback(args, addr) ==
    Let([args EXCEPT !.addr = addr, !.count = args.count + 1], LAMBDA a :
        [args |-> a,
         ret  |-> IF \/ (a.pos # 0 /\ a.count = a.pos)
                     \/ (a.pos = 0 /\ a.count > 1)
                  THEN 1 ELSE 0])

\* klp_find_callback: skip symbols of another name.
klp_find_callback(args, name, addr) ==
    IF args.name # name THEN [args |-> args, ret |-> 0]
    ELSE klp_match_callback(args, addr)

\* module_kallsyms_on_each_symbol / kallsyms_on_each_match_symbol: walk the
\* symbols of the object in table order from entry i until the callback
\* returns non-zero.
RECURSIVE OnEachSymbol(_, _, _, _)
OnEachSymbol(T, objname, args, i) ==
    IF i > Len(T) THEN args
    ELSE IF T[i].obj # objname THEN OnEachSymbol(T, objname, args, i + 1)
    ELSE Let(klp_find_callback(args, T[i].name, T[i].addr),
             LAMBDA r : IF r.ret # 0 THEN r.args
                        ELSE OnEachSymbol(T, objname, r.args, i + 1))

\* klp_find_object_symbol: the address of the sympos-th occurrence of name
\* in the object, or of its only occurrence when sympos is 0.
klp_find_object_symbol(T, objname, name, sympos) ==
    Let(OnEachSymbol(T, objname,
            [name |-> name, addr |-> 0, count |-> 0, pos |-> sympos], 1),
        LAMBDA args :
            IF args.addr = 0 THEN [ret |-> "EINVAL", addr |-> 0]
            ELSE IF args.count > 1 /\ sympos = 0
                 THEN [ret |-> "EINVAL", addr |-> 0]
            ELSE IF sympos # args.count /\ sympos > 0
                 THEN [ret |-> "EINVAL", addr |-> 0]
            ELSE [ret |-> OK, addr |-> args.addr])

\* kallsyms_lookup_size_offset: non-zero (found) with the size of the
\* function at addr, or 0 when kallsyms does not know the address.
kallsyms_lookup_size_offset(addr) ==
    IF addr # 0 /\ IsNewFunc(addr) THEN [ret |-> 1, size |-> 4]
    ELSE IF addr \in Unsized THEN [ret |-> 0, size |-> 0]
    ELSE IF \E i \in DOMAIN SymTab : SymTab[i].addr = addr /\ addr # 0
         THEN LET i == CHOOSE j \in DOMAIN SymTab : SymTab[j].addr = addr
              IN  [ret |-> 1, size |-> SymTab[i].size]
    ELSE [ret |-> 0, size |-> 0]

-----------------------------------------------------------------------------
(* Initialisation of a patch (registration)                                *)

\* The external steps of a registration that can fail, and "none".
RegFailSteps ==
    {"none", "patch_kobject_add", "obj_kobject_add", "func_kobject_add",
     "klp_apply_object_relocs", "try_module_get", "jump_label_register",
     "klp_static_call_register", "jump_label_text_reserved",
     "static_call_text_reserved"}

klp_is_module(obj) == obj.name # NULL

\* klp_is_object_loaded: the base image is always loaded, a module once
\* obj->mod is set.
klp_is_object_loaded(obj) == obj.name = NULL \/ obj.mod # NULL

\* Number of leading entries of a static array that are no terminator
\* (live[i] tells whether entry i is one the loop goes on at): the entries
\* a klp_for_each_*_static loop visits.
StaticLen(live) ==
    IF \E i \in DOMAIN live : ~live[i]
    THEN (CHOOSE i \in DOMAIN live :
              ~live[i] /\ \A j \in 1 .. (i - 1) : live[j]) - 1
    ELSE Len(live)

\* klp_for_each_object_static: entries until one with neither funcs nor name.
LiveObj(o) == ~o.funcs.null \/ o.name # NULL

klp_for_each_object_static(d) ==
    SubSeq(d.objs.ent, 1,
           StaticLen([i \in DOMAIN d.objs.ent |-> LiveObj(d.objs.ent[i])]))

\* klp_for_each_func_static: entries until one with no old_name, no
\* new_func and no old_sympos.
LiveFunc(f) == f.old_name # NULL \/ f.new_func # 0 \/ f.old_sympos # 0

klp_for_each_func_static(o) ==
    SubSeq(o.funcs.ent, 1,
           StaticLen([i \in DOMAIN o.funcs.ent |-> LiveFunc(o.funcs.ent[i])]))

\* klp_init_func_early: link the function into obj->func_list with no node.
klp_init_func_early(f) ==
    [old_name |-> f.old_name, old_sympos |-> f.old_sympos,
     new_func |-> f.new_func, nop |-> f.nop, force |-> f.force,
     old_func |-> 0, old_size |-> 0, new_size |-> 0,
     patched |-> FALSE, func_node |-> 0]

\* klp_init_object_early: link the object into patch->obj_list, mod = NULL.
klp_init_object_early(o) ==
    LET fs == klp_for_each_func_static(o)
    IN  [name |-> o.name, mod |-> NULL, patched |-> FALSE,
         func_list |-> [j \in DOMAIN fs |-> klp_init_func_early(fs[j])]]

\* klp_init_patch_early: empty list head, enabled = false, all objects and
\* functions of the static arrays linked.
klp_init_patch_early(d) ==
    LET os == klp_for_each_object_static(d)
    IN  [enabled |-> FALSE,
         obj_list |-> [i \in DOMAIN os |-> klp_init_object_early(os[i])]]

\* The struct of a patch that is not initialised (or was freed).
NoPatch == [enabled |-> FALSE, obj_list |-> << >>]

\* klp_init_func (the variant without ftrace).
klp_init_func(func, env) ==
    IF func.old_name = NULL THEN [ret |-> "EINVAL", func |-> func]
    ELSE IF func.new_func = 0 THEN [ret |-> "EINVAL", func |-> func]
    ELSE [ret  |-> IF env.fail = "func_kobject_add" THEN "ENOMEM" ELSE OK,
          func |-> [func EXCEPT !.patched = FALSE]]

\* The loop body of klp_init_object_loaded with the size of the old
\* function taken as it comes.
InitFuncLoaded_anysize(objname, func) ==
    Let(klp_find_object_symbol(SymTab, objname, func.old_name,
                               func.old_sympos),
        LAMBDA sym :
    Let([func EXCEPT !.old_func = sym.addr], LAMBDA f1 :
        IF sym.ret # OK THEN [ret |-> sym.ret, func |-> f1]
        ELSE
    Let(kallsyms_lookup_size_offset(f1.old_func), LAMBDA osz :
    Let(IF osz.ret # 0 THEN [f1 EXCEPT !.old_size = osz.size] ELSE f1,
        LAMBDA f2 :
    Let(kallsyms_lookup_size_offset(f2.new_func), LAMBDA nsz :
        IF nsz.ret = 0 THEN [ret |-> "ENOENT", func |-> f2]
        ELSE [ret |-> OK, func |-> [f2 EXCEPT !.new_size = nsz.size]])))))

\* The body of the loop of klp_init_object_loaded for one function.
InitFuncLoaded(objname, func) ==
    Let(klp_find_object_symbol(SymTab, objname, func.old_name,
                               func.old_sympos),
        LAMBDA sym :
    Let([func EXCEPT !.old_func = sym.addr], LAMBDA f1 :
        IF sym.ret # OK THEN [ret |-> sym.ret, func |-> f1]
        ELSE
    Let(kallsyms_lookup_size_offset(f1.old_func), LAMBDA osz :
    Let(IF osz.ret # 0 THEN [f1 EXCEPT !.old_size = osz.size] ELSE f1,
        LAMBDA f2 :
        IF osz.ret = 0 \/ f2.old_size < 0
        THEN [ret |-> "ENOENT", func |-> f2]
        ELSE IF f2.old_size < KLP_MAX_REPLACE_SIZE
             THEN [ret |-> "EINVAL", func |-> f2]
        ELSE
    Let(kallsyms_lookup_size_offset(f2.new_func), LAMBDA nsz :
        IF nsz.ret = 0 THEN [ret |-> "ENOENT", func |-> f2]
        ELSE [ret |-> OK, func |-> [f2 EXCEPT !.new_size = nsz.size]])))))

\* The loop of klp_init_object_loaded from function i on: it stops at the
\* first function that fails and leaves the later ones untouched.
RECURSIVE InitFuncsLoaded(_, _, _)
InitFuncsLoaded(objname, funcs, i) ==
    IF i > Len(funcs) THEN [ret |-> OK, funcs |-> funcs]
    ELSE Let(InitFuncLoaded(objname, funcs[i]), LAMBDA r :
         Let([funcs EXCEPT ![i] = r.func], LAMBDA fs :
             IF r.ret # OK THEN [ret |-> r.ret, funcs |-> fs]
             ELSE InitFuncsLoaded(objname, fs, i + 1)))

\* The klp_init_func loop of klp_init_object from function i on.
RECURSIVE InitFuncs(_, _, _)
InitFuncs(funcs, i, env) ==
    IF i > Len(funcs) THEN [ret |-> OK, funcs |-> funcs]
    ELSE Let(klp_init_func(funcs[i], env), LAMBDA r :
         Let([funcs EXCEPT ![i] = r.func], LAMBDA fs :
             IF r.ret # OK THEN [ret |-> r.ret, funcs |-> fs]
             ELSE InitFuncs(fs, i + 1, env)))

\* klp_init_object_loaded: write the module's relocations, then resolve
\* the address and the sizes of every function.
klp_init_object_loaded(obj, env) ==
    IF klp_is_module(obj) /\ env.fail = "klp_apply_object_relocs"
    THEN [ret |-> "EINVAL", obj |-> obj]
    ELSE Let(InitFuncsLoaded(obj.name, obj.func_list, 1), LAMBDA r :
             [ret |-> r.ret, obj |-> [obj EXCEPT !.func_list = r.funcs]])

\* klp_find_object_module that takes a module whatever its state.
klp_find_object_module_coming(obj, trefs, env) ==
    IF ~klp_is_module(obj) THEN [ret |-> OK, obj |-> obj, trefs |-> trefs]
    ELSE IF obj.name \notin TargetModules
         THEN [ret |-> "ENOPKG", obj |-> obj, trefs |-> trefs]
    ELSE IF env.fail = "try_module_get"
         THEN [ret |-> "EINVAL", obj |-> obj, trefs |-> trefs]
    ELSE [ret |-> OK, obj |-> [obj EXCEPT !.mod = obj.name],
          trefs |-> [trefs EXCEPT ![obj.name] = @ + 1]]

\* klp_find_object_module: take a reference on the loaded target module.
klp_find_object_module(obj, trefs, env) ==
    IF ~klp_is_module(obj) THEN [ret |-> OK, obj |-> obj, trefs |-> trefs]
    ELSE IF obj.name \notin TargetModules
         THEN [ret |-> "ENOPKG", obj |-> obj, trefs |-> trefs]
    ELSE IF \/ ModuleState[obj.name] = "MODULE_STATE_COMING"
            \/ env.fail = "try_module_get"
         THEN [ret |-> "EINVAL", obj |-> obj, trefs |-> trefs]
    ELSE [ret |-> OK, obj |-> [obj EXCEPT !.mod = obj.name],
          trefs |-> [trefs EXCEPT ![obj.name] = @ + 1]]

\* The error exit of klp_init_object with the module_put but without the
\* reset of obj->mod.
InitObjectOut_keep(ret, obj, trefs) ==
    IF klp_is_module(obj)
    THEN [ret |-> ret, obj |-> obj,
          trefs |-> [trefs EXCEPT ![obj.mod] = @ - 1]]
    ELSE [ret |-> ret, obj |-> obj, trefs |-> trefs]

\* The error exit of klp_init_object (label out): drop the module reference.
InitObjectOut(ret, obj, trefs) ==
    IF klp_is_module(obj)
    THEN [ret |-> ret, obj |-> [obj EXCEPT !.mod = NULL],
          trefs |-> [trefs EXCEPT ![obj.mod] = @ - 1]]
    ELSE [ret |-> ret, obj |-> obj, trefs |-> trefs]

\* klp_init_object (the variant without ftrace).
klp_init_object(obj0, trefs0, env) ==
    IF \E j \in DOMAIN obj0.func_list :
           \/ obj0.func_list[j].old_name = NULL
           \/ (obj0.func_list[j].new_func = 0 /\ ~obj0.func_list[j].nop)
    THEN [ret |-> "EINVAL", obj |-> obj0, trefs |-> trefs0]
    ELSE
    Let(klp_find_object_module(
            [obj0 EXCEPT !.patched = FALSE, !.mod = NULL], trefs0, env),
        LAMBDA fm :
        IF fm.ret # OK THEN [ret |-> fm.ret, obj |-> fm.obj, trefs |-> trefs0]
        ELSE IF env.fail = "obj_kobject_add"
             THEN InitObjectOut("ENOMEM", fm.obj, fm.trefs)
        ELSE
    Let(IF klp_is_object_loaded(fm.obj)
        THEN klp_init_object_loaded(fm.obj, env)
        ELSE [ret |-> OK, obj |-> fm.obj],
        LAMBDA ld :
        IF ld.ret # OK THEN InitObjectOut(ld.ret, ld.obj, fm.trefs)
        ELSE
    Let(InitFuncs(ld.obj.func_list, 1, env), LAMBDA fi :
    Let([ld.obj EXCEPT !.func_list = fi.funcs], LAMBDA o3 :
        IF fi.ret # OK THEN InitObjectOut(fi.ret, o3, fm.trefs)
        ELSE [ret |-> OK, obj |-> o3, trefs |-> fm.trefs]))))

\* The klp_init_object loop of klp_init_patch from object i on.
RECURSIVE InitObjects(_, _, _, _)
InitObjects(objs, trefs, i, env) ==
    IF i > Len(objs) THEN [ret |-> OK, objs |-> objs, trefs |-> trefs]
    ELSE Let(klp_init_object(objs[i], trefs, env), LAMBDA r :
         Let([objs EXCEPT ![i] = r.obj], LAMBDA os :
             IF r.ret # OK
             THEN [ret |-> r.ret, objs |-> os, trefs |-> r.trefs]
             ELSE InitObjects(os, r.trefs, i + 1, env)))

\* klp_is_patch_registered: the patch is on klp_patches.
klp_is_patch_registered(K, p) ==
    \E i \in DOMAIN K.klp_patches : K.klp_patches[i] = p

\* check_address_conflict: a static key or a static call in the bytes to
\* be rewritten of some function of the patch.
check_address_conflict(pt, env) ==
    IF /\ env.fail \in {"jump_label_text_reserved",
                        "static_call_text_reserved"}
       /\ \E i \in DOMAIN pt.obj_list : pt.obj_list[i].func_list # << >>
    THEN "EINVAL" ELSE OK

\* klp_init_patch that links the patch at the head of klp_patches.
klp_init_patch_head(K, p, env) ==
    IF env.fail = "patch_kobject_add" THEN [ret |-> "ENOMEM", K |-> K]
    ELSE
    Let(InitObjects(K.patch[p].obj_list, K.mod_refs.target, 1, env),
        LAMBDA r :
    Let([K EXCEPT !.patch[p].obj_list = r.objs, !.mod_refs.target = r.trefs],
        LAMBDA K1 :
        IF r.ret # OK THEN [ret |-> r.ret, K |-> K1]
        ELSE IF env.fail = "jump_label_register"
             THEN [ret |-> "ENOMEM", K |-> K1]
        ELSE IF env.fail = "klp_static_call_register"
             THEN [ret |-> "ENOMEM", K |-> K1]
        ELSE
    Let(check_address_conflict(K1.patch[p], env), LAMBDA c :
        IF c # OK THEN [ret |-> c, K |-> K1]
        ELSE [ret |-> OK,
              K |-> [K1 EXCEPT !.klp_patches = <<p>> \o @]])))

\* klp_init_patch: initialise every object, register jump labels and
\* static calls, check for address conflicts, and only then append the
\* patch to klp_patches.
klp_init_patch(K, p, env) ==
    IF env.fail = "patch_kobject_add" THEN [ret |-> "ENOMEM", K |-> K]
    ELSE
    Let(InitObjects(K.patch[p].obj_list, K.mod_refs.target, 1, env),
        LAMBDA r :
    Let([K EXCEPT !.patch[p].obj_list = r.objs, !.mod_refs.target = r.trefs],
        LAMBDA K1 :
        IF r.ret # OK THEN [ret |-> r.ret, K |-> K1]
        ELSE IF env.fail = "jump_label_register"
             THEN [ret |-> "ENOMEM", K |-> K1]
        ELSE IF env.fail = "klp_static_call_register"
             THEN [ret |-> "ENOMEM", K |-> K1]
        ELSE
    Let(check_address_conflict(K1.patch[p], env), LAMBDA c :
        IF c # OK THEN [ret |-> c, K |-> K1]
        ELSE [ret |-> OK,
              K |-> [K1 EXCEPT !.klp_patches = Append(@, p)]])))

\* list_del(&patch->list).
ListDel(list, p) == SelectSeq(list, LAMBDA q : q # p)

\* __klp_free_objects: put the reference on every object's target module
\* and unlink every function and object.
RECURSIVE FreeObjectRefs(_, _, _)
FreeObjectRefs(objs, trefs, i) ==
    IF i > Len(objs) THEN trefs
    ELSE IF klp_is_module(objs[i]) /\ objs[i].mod # NULL
         THEN FreeObjectRefs(objs,
                  [trefs EXCEPT ![objs[i].mod] = @ - 1], i + 1)
    ELSE FreeObjectRefs(objs, trefs, i + 1)

\* klp_free_objects without the module_put of the target modules.
klp_free_objects_held(K, p) ==
    [K EXCEPT !.patch[p].obj_list = << >>]

klp_free_objects(K, p) ==
    [K EXCEPT !.mod_refs.target =
                  FreeObjectRefs(K.patch[p].obj_list, @, 1),
              !.patch[p].obj_list = << >>]

\* klp_free_patch_start: unlink the patch from klp_patches if it is linked
\* and free its objects.
klp_free_patch_start(K, p) ==
    klp_free_objects(
        IF klp_is_patch_registered(K, p)
        THEN [K EXCEPT !.klp_patches = ListDel(@, p)]
        ELSE K, p)

\* The shape checks klp_register_patch makes before it takes klp_mutex.
RegisterShapeOk(d) ==
    /\ d.mod # NULL
    /\ ~d.objs.null
    /\ \A i \in DOMAIN klp_for_each_object_static(d) :
           ~klp_for_each_object_static(d)[i].funcs.null
    /\ d.mod = "klp"

\* klp_register_patch without the test klp_is_patch_registered.
klp_register_patch_twice(K, p, d, env) ==
    IF ~RegisterShapeOk(d) THEN [ret |-> "EINVAL", K |-> K]
    ELSE Let(klp_init_patch([K EXCEPT !.patch[p] = klp_init_patch_early(d)],
                            p, env),
             LAMBDA r :
                 IF r.ret # OK
                 THEN [ret |-> r.ret, K |-> klp_free_patch_start(r.K, p)]
                 ELSE [ret |-> OK, K |-> r.K])

\* klp_register_patch.
klp_register_patch(K, p, d, env) ==
    IF ~RegisterShapeOk(d) THEN [ret |-> "EINVAL", K |-> K]
    ELSE IF klp_is_patch_registered(K, p) THEN [ret |-> "EINVAL", K |-> K]
    ELSE Let(klp_init_patch([K EXCEPT !.patch[p] = klp_init_patch_early(d)],
                            p, env),
             LAMBDA r :
                 IF r.ret # OK
                 THEN [ret |-> r.ret, K |-> klp_free_patch_start(r.K, p)]
                 ELSE [ret |-> OK, K |-> r.K])

\* klp_unregister_patch without the test of patch->enabled.
klp_unregister_patch_any(K, p) ==
    IF ~klp_is_patch_registered(K, p) THEN [ret |-> "EINVAL", K |-> K]
    ELSE [ret |-> OK, K |-> klp_free_patch_start(K, p)]

\* klp_unregister_patch.
klp_unregister_patch(K, p) ==
    IF ~klp_is_patch_registered(K, p) THEN [ret |-> "EINVAL", K |-> K]
    ELSE IF K.patch[p].enabled THEN [ret |-> "EBUSY", K |-> K]
    ELSE [ret |-> OK, K |-> klp_free_patch_start(K, p)]

-----------------------------------------------------------------------------
(* The Function-Site table                                                 *)

\* klp_for_each_object / klp_for_each_func: the <<object, function>>
\* index pairs of a patch in iteration order, from object i on.
RECURSIVE FuncRefsFrom(_, _)
FuncRefsFrom(objs, i) ==
    IF i > Len(objs) THEN << >>
    ELSE [j \in 1 .. Len(objs[i].func_list) |-> <<i, j>>]
             \o FuncRefsFrom(objs, i + 1)

FuncRefs(pt) == FuncRefsFrom(pt.obj_list, 1)

FuncOf(K, p, r) == K.patch[p].obj_list[r[1]].func_list[r[2]]

\* klp_find_func_node: the position in klp_func_list of the node of
\* old_func, 0 when there is none.
klp_find_func_node(L, old_func) ==
    IF \E i \in DOMAIN L : L[i].old_func = old_func
    THEN CHOOSE i \in DOMAIN L :
             L[i].old_func = old_func
             /\ \A j \in 1 .. (i - 1) : L[j].old_func # old_func
    ELSE 0

\* The func_stack of the node a function points to.
FuncStack(K, func_node) ==
    K.klp_func_list[klp_find_func_node(K.klp_func_list, func_node)].func_stack

\* func_node_alloc that does not look the old address up first.
func_node_alloc_dup(K, func, env) ==
    IF func.old_func \in env.alloc_fail
    THEN [node |-> 0, K |-> K]
    ELSE [node |-> func.old_func,
          K |-> [K EXCEPT !.klp_func_list =
                     << [old_func |-> func.old_func, func_stack |-> << >>] >>
                         \o @]]

\* func_node_alloc: the node of func->old_func; a new node is published at
\* the head of klp_func_list unless its allocation or the snapshot of the
\* old code fails.  The handle of a node is its old_func; 0 is NULL.
func_node_alloc(K, func, env) ==
    IF klp_find_func_node(K.klp_func_list, func.old_func) # 0
    THEN [node |-> func.old_func, K |-> K]
    ELSE IF func.old_func \in env.alloc_fail
         THEN [node |-> 0, K |-> K]
    ELSE [node |-> func.old_func,
          K |-> [K EXCEPT !.klp_func_list =
                     << [old_func |-> func.old_func, func_stack |-> << >>] >>
                         \o @]]

\* func_node_free that clears the handle and leaves the node in the table.
func_node_free_keep(K, p, r) ==
    LET func == FuncOf(K, p, r)
    IN  IF func.func_node = 0 THEN K
        ELSE [K EXCEPT
                !.patch[p].obj_list[r[1]].func_list[r[2]].func_node = 0]

\* func_node_free that unlinks the node whatever is left on its stack.
func_node_free_always(K, p, r) ==
    LET func == FuncOf(K, p, r)
    IN  IF func.func_node = 0 THEN K
        ELSE [K EXCEPT
                !.patch[p].obj_list[r[1]].func_list[r[2]].func_node = 0,
                !.klp_func_list =
                    SelectSeq(@, LAMBDA n : n.old_func # func.func_node)]

\* func_node_free: clear the handle and unlink and free the node when its
\* stack is empty.
func_node_free(K, p, r) ==
    LET func == FuncOf(K, p, r)
        K1 == [K EXCEPT
                 !.patch[p].obj_list[r[1]].func_list[r[2]].func_node = 0]
    IN  IF func.func_node = 0 THEN K
        ELSE IF FuncStack(K, func.func_node) = << >>
             THEN [K1 EXCEPT !.klp_func_list =
                       SelectSeq(@, LAMBDA n : n.old_func # func.func_node)]
        ELSE K1

\* klp_mem_recycle: func_node_free for every function of the patch.
RECURSIVE MemRecycleFrom(_, _, _, _)
MemRecycleFrom(K, p, refs, i) ==
    IF i > Len(refs) THEN K
    ELSE MemRecycleFrom(func_node_free(K, p, refs[i]), p, refs, i + 1)

\* klp_mem_recycle that releases nothing.
klp_mem_recycle_none(K, p) == K

klp_mem_recycle(K, p) == MemRecycleFrom(K, p, FuncRefs(K.patch[p]), 1)

\* klp_mem_prepare: a node for every function of the patch, or none.  The
\* trace of a failure tells whether its klp_mem_recycle freed a node.
RECURSIVE MemPrepareFrom(_, _, _, _, _)
MemPrepareFrom(K, p, refs, i, env) ==
    IF i > Len(refs) THEN [ret |-> OK, K |-> K, trace |-> {}]
    ELSE LET a  == func_node_alloc(K, FuncOf(K, p, refs[i]), env)
             K1 == [a.K EXCEPT
                      !.patch[p].obj_list[refs[i][1]].func_list[refs[i][2]]
                          .func_node = a.node]
         IN  IF a.node = 0
             THEN Let(klp_mem_recycle(K1, p), LAMBDA R :
                      [ret |-> "ENOMEM", K |-> R,
                       trace |-> IF Len(R.klp_func_list)
                                        < Len(K1.klp_func_list)
                                 THEN {"arch_klp_mem_free"} ELSE {}])
             ELSE MemPrepareFrom(K1, p, refs, i + 1, env)

klp_mem_prepare(K, p, env) ==
    MemPrepareFrom(K, p, FuncRefs(K.patch[p]), 1, env)

-----------------------------------------------------------------------------
(* Patching and unpatching, run by the elected CPU of the rendezvous       *)

\* arch_klp_patch_func: rewrite the old function to jump to func->new_func
\* and push func on top of its node's stack; nothing changes on failure.
arch_klp_patch_func(K, p, r, env) ==
    LET func == FuncOf(K, p, r)
        n    == klp_find_func_node(K.klp_func_list, func.func_node)
    IN  IF func.old_func \in env.patch_fail THEN [ret |-> "EINVAL", K |-> K]
        ELSE [ret |-> OK,
              K |-> [K EXCEPT !.klp_func_list[n].func_stack =
                         << <<p, r[1], r[2]>> >> \o @]]

\* arch_klp_unpatch_func: take func off its node's stack and restore the
\* function now on top, or the saved original bytes.
arch_klp_unpatch_func(K, p, r) ==
    LET func == FuncOf(K, p, r)
        n    == klp_find_func_node(K.klp_func_list, func.func_node)
    IN  [K EXCEPT !.klp_func_list[n].func_stack =
             SelectSeq(@, LAMBDA e : e # <<p, r[1], r[2]>>)]

\* klp_patch_func.
klp_patch_func(K, p, r, env) ==
    LET func == FuncOf(K, p, r)
        a    == arch_klp_patch_func(K, p, r, env)
    IN  IF func.patched THEN [ret |-> OK, K |-> K]
        ELSE IF func.old_func = 0 THEN [ret |-> "EINVAL", K |-> K]
        ELSE IF func.func_node = 0 THEN [ret |-> "EINVAL", K |-> K]
        ELSE IF a.ret # OK THEN [ret |-> a.ret, K |-> K]
        ELSE [ret |-> OK,
              K |-> [a.K EXCEPT
                       !.patch[p].obj_list[r[1]].func_list[r[2]].patched
                           = TRUE]]

\* klp_unpatch_func.
klp_unpatch_func(K, p, r) ==
    LET func == FuncOf(K, p, r)
    IN  IF ~func.patched \/ func.old_func = 0 \/ func.func_node = 0 THEN K
        ELSE [arch_klp_unpatch_func(K, p, r) EXCEPT
                !.patch[p].obj_list[r[1]].func_list[r[2]].patched = FALSE]

\* klp_unpatch_object: unpatch the patched functions of object o from
\* function j on, then clear obj->patched.
RECURSIVE UnpatchFuncsFrom(_, _, _, _)
UnpatchFuncsFrom(K, p, o, j) ==
    IF j > Len(K.patch[p].obj_list[o].func_list) THEN K
    ELSE UnpatchFuncsFrom(
             IF FuncOf(K, p, <<o, j>>).patched
             THEN klp_unpatch_func(K, p, <<o, j>>) ELSE K,
             p, o, j + 1)

klp_unpatch_object(K, p, o) ==
    [UnpatchFuncsFrom(K, p, o, 1) EXCEPT !.patch[p].obj_list[o].patched = FALSE]

\* klp_patch_object: patch every function of object o; on the first
\* failure unpatch the object again.
RECURSIVE PatchFuncsFrom(_, _, _, _, _)
PatchFuncsFrom(K, p, o, j, env) ==
    IF j > Len(K.patch[p].obj_list[o].func_list)
    THEN [ret |-> OK, K |-> [K EXCEPT !.patch[p].obj_list[o].patched = TRUE]]
    ELSE LET r == klp_patch_func(K, p, <<o, j>>, env)
         IN  IF r.ret # OK
             THEN [ret |-> r.ret, K |-> klp_unpatch_object(r.K, p, o)]
             ELSE PatchFuncsFrom(r.K, p, o, j + 1, env)

klp_patch_object(K, p, o, env) ==
    IF K.patch[p].obj_list[o].patched THEN [ret |-> OK, K |-> K]
    ELSE PatchFuncsFrom(K, p, o, 1, env)

\* klp_unpatch_objects: unpatch every patched object from object o on.
RECURSIVE UnpatchObjectsFrom(_, _, _)
UnpatchObjectsFrom(K, p, o) ==
    IF o > Len(K.patch[p].obj_list) THEN K
    ELSE UnpatchObjectsFrom(
             IF K.patch[p].obj_list[o].patched
             THEN klp_unpatch_object(K, p, o) ELSE K,
             p, o + 1)

klp_unpatch_objects(K, p) == UnpatchObjectsFrom(K, p, 1)

\* disable_patch without the clearing of patch->enabled.
disable_patch_stale(K, p) ==
    [klp_unpatch_objects(K, p) EXCEPT
        !.mod_refs.klp[PatchMod(p)] = @ - 1]

\* disable_patch that keeps the reference on the patch module.
disable_patch_held(K, p) ==
    [klp_unpatch_objects(K, p) EXCEPT !.patch[p].enabled = FALSE]

\* disable_patch: unpatch, clear enabled, put the patch module.
disable_patch(K, p) ==
    [klp_unpatch_objects(K, p) EXCEPT
        !.patch[p].enabled = FALSE,
        !.mod_refs.klp[PatchMod(p)] = @ - 1]

\* The klp_patch_object loop of enable_patch from object o on.
RECURSIVE PatchObjectsFrom(_, _, _, _)
PatchObjectsFrom(K, p, o, env) ==
    IF o > Len(K.patch[p].obj_list) THEN [ret |-> OK, K |-> K]
    ELSE IF ~klp_is_object_loaded(K.patch[p].obj_list[o])
         THEN PatchObjectsFrom(K, p, o + 1, env)
    ELSE LET r == klp_patch_object(K, p, o, env)
         IN  IF r.ret # OK THEN [ret |-> r.ret, K |-> disable_patch(r.K, p)]
             ELSE PatchObjectsFrom(r.K, p, o + 1, env)

\* enable_patch: get the patch module, set enabled, patch every loaded
\* object; a failing object disables the patch again.
enable_patch(K, p, env) ==
    IF ~K.patch[p].enabled /\ env.modget_fail THEN [ret |-> "ENODEV", K |-> K]
    ELSE PatchObjectsFrom(
             IF ~K.patch[p].enabled
             THEN [K EXCEPT !.patch[p].enabled = TRUE,
                            !.mod_refs.klp[PatchMod(p)] = @ + 1]
             ELSE K,
             p, 1, env)

-----------------------------------------------------------------------------
(* The activeness check                                                    *)

Range(addr, size, force) == [func_addr |-> addr, func_size |-> size,
                             force |-> force]

\* arch_check_jump_insn, the generic version: every replacement area is
\* taken to hold a jump instruction.
arch_check_jump_insn(func_addr) == TRUE

\* arch_klp_check_activeness_func whose enable branch does not look at
\* func->force before collecting the range.
arch_klp_check_activeness_func_noforce(K, func, enable) ==
    LET stack == FuncStack(K, func.func_node)
        top   == FuncOf(K, stack[1][1], <<stack[1][2], stack[1][3]>>)
    IN  IF enable
        THEN IF func.patched THEN << >>
             ELSE IF stack = << >>
                  THEN << Range(func.old_func, func.old_size, func.force) >>
             ELSE << Range(top.new_func, top.new_size, func.force) >>
        ELSE (IF config.PREEMPTION
              THEN IF Len(stack) = 1
                   THEN << Range(func.old_func, func.old_size,
                                 KLP_NORMAL_FORCE) >>
                   ELSE << Range(top.new_func, top.new_size,
                                 KLP_NORMAL_FORCE) >>
              ELSE << >>)
             \o << Range(func.new_func, func.new_size, KLP_NORMAL_FORCE) >>

\* arch_klp_check_activeness_func: the ranges one function contributes to
\* the list the stack walker compares against.
arch_klp_check_activeness_func(K, func, enable) ==
    LET stack == FuncStack(K, func.func_node)
        top   == FuncOf(K, stack[1][1], <<stack[1][2], stack[1][3]>>)
    IN  IF enable
        THEN IF func.patched \/ func.force = KLP_ENFORCEMENT THEN << >>
             ELSE LET r == IF stack = << >>
                           THEN Range(func.old_func, func.old_size,
                                      func.force)
                           ELSE Range(top.new_func, top.new_size, func.force)
                  IN  IF \/ config.PREEMPTION
                         \/ func.force = KLP_NORMAL_FORCE
                         \/ arch_check_jump_insn(r.func_addr)
                      THEN << r >> ELSE << >>
        ELSE (IF config.PREEMPTION
              THEN IF Len(stack) = 1
                   THEN << Range(func.old_func, func.old_size,
                                 KLP_NORMAL_FORCE) >>
                   ELSE << Range(top.new_func, top.new_size,
                                 KLP_NORMAL_FORCE) >>
              ELSE << >>)
             \o << Range(func.new_func, func.new_size, KLP_NORMAL_FORCE) >>

\* klp_check_activeness_func: the ranges of every function of the patch,
\* in iteration order.
RECURSIVE ActivenessFrom(_, _, _, _, _)
ActivenessFrom(K, p, refs, i, enable) ==
    IF i > Len(refs) THEN << >>
    ELSE arch_klp_check_activeness_func(K, FuncOf(K, p, refs[i]), enable)
             \o ActivenessFrom(K, p, refs, i + 1, enable)

klp_check_activeness_func(K, p, enable) ==
    ActivenessFrom(K, p, FuncRefs(K.patch[p]), 1, enable)

\* klp_size_to_check that compares the whole range whatever the force.
klp_size_to_check_full(func_size, force) == func_size

\* klp_size_to_check.
klp_size_to_check(func_size, force) ==
    IF force = KLP_STACK_OPTIMIZE /\ func_size > KLP_MAX_REPLACE_SIZE
    THEN KLP_MAX_REPLACE_SIZE ELSE func_size

\* klp_compare_address: pc lies in [func_addr, func_addr + check_size).
klp_compare_address(pc, func_addr, check_size) ==
    IF pc >= func_addr /\ pc < func_addr + check_size THEN "EAGAIN" ELSE OK

\* check_func_list: the first range of the list that holds pc decides.
check_func_list(func_list, pc) ==
    IF \E i \in DOMAIN func_list :
           klp_compare_address(pc, func_list[i].func_addr,
               klp_size_to_check(func_list[i].func_size,
                                 func_list[i].force)) # OK
    THEN "EAGAIN" ELSE OK

\* arch_klp_check_calltrace: run fn on every frame of every stack and stop
\* at the first frame it refuses.
arch_klp_check_calltrace(func_list, env) ==
    IF \E pc \in env.frames : check_func_list(func_list, pc) # OK
    THEN "EAGAIN" ELSE OK

\* klp_check_calltrace that collects the ranges and never walks the stacks.
klp_check_calltrace_nowalk(K, p, enable, env) ==
    IF klp_check_activeness_func(K, p, enable) # << >> /\ env.add_func_fail
    THEN "ENOMEM" ELSE OK

\* klp_check_calltrace.
klp_check_calltrace(K, p, enable, env) ==
    LET func_list == klp_check_activeness_func(K, p, enable)
    IN  IF func_list # << >> /\ env.add_func_fail THEN "ENOMEM"
        ELSE IF func_list = << >> THEN OK
        ELSE arch_klp_check_calltrace(func_list, env)

\* klp_check_patch_kprobed that looks at the first byte of every old
\* function only.
klp_check_patch_kprobed_first(K, p, env) ==
    \E i \in DOMAIN FuncRefs(K.patch[p]) :
        FuncOf(K, p, FuncRefs(K.patch[p])[i]).old_func \in env.kprobes

\* klp_check_patch_kprobed: a kprobe on some byte of some old function.
klp_check_patch_kprobed(K, p, env) ==
    \E i \in DOMAIN FuncRefs(K.patch[p]) :
        LET func == FuncOf(K, p, FuncRefs(K.patch[p])[i])
        IN  \E b \in 0 .. (func.old_size - 1) :
                (func.old_func + b) \in env.kprobes

-----------------------------------------------------------------------------
(* Enable and disable                                                      *)

\* Position of patch p in klp_patches.
ListPos(list, p) == CHOOSE i \in DOMAIN list : list[i] = p

\* klp_try_enable_patch as run by the CPU that enters the rendezvous
\* first; the other CPUs wait for it and return 0.
klp_try_enable_patch(K, p, env) ==
    IF klp_check_patch_kprobed(K, p, env)
    THEN [ret |-> "EINVAL", K |-> K, trace |-> {"klp_check_patch_kprobed"}]
    ELSE IF klp_check_calltrace(K, p, TRUE, env) # OK
         THEN [ret |-> klp_check_calltrace(K, p, TRUE, env), K |-> K,
               trace |-> {"klp_check_patch_kprobed", "klp_check_calltrace"}]
    ELSE LET r == enable_patch(K, p, env)
         IN  [ret |-> r.ret, K |-> r.K,
              trace |-> {"klp_check_patch_kprobed", "klp_check_calltrace",
                         "enable_patch"}]

\* klp_try_disable_patch that goes on to disable_patch whatever
\* klp_check_calltrace returned.
klp_try_disable_patch_unchecked(K, p, env) ==
    IF klp_check_patch_kprobed(K, p, env)
    THEN [ret |-> "EINVAL", K |-> K, trace |-> {"klp_check_patch_kprobed"}]
    ELSE [ret |-> OK, K |-> disable_patch(K, p),
          trace |-> {"klp_check_patch_kprobed", "klp_check_calltrace",
                     "disable_patch"}]

\* klp_try_disable_patch as run by the elected CPU.
klp_try_disable_patch(K, p, env) ==
    IF klp_check_patch_kprobed(K, p, env)
    THEN [ret |-> "EINVAL", K |-> K, trace |-> {"klp_check_patch_kprobed"}]
    ELSE IF klp_check_calltrace(K, p, FALSE, env) # OK
         THEN [ret |-> klp_check_calltrace(K, p, FALSE, env), K |-> K,
               trace |-> {"klp_check_patch_kprobed", "klp_check_calltrace"}]
    ELSE [ret |-> OK, K |-> disable_patch(K, p),
          trace |-> {"klp_check_patch_kprobed", "klp_check_calltrace",
                     "disable_patch"}]

\* No stacking rule on disable.
DisableStackAny(K, p) == TRUE

\* The stacking rule of __klp_disable_patch: the patch is the last of the
\* list or the next patch is not enabled.
DisableStackOk(K, p) ==
    LET i == ListPos(K.klp_patches, p)
    IN  i = Len(K.klp_patches) \/ ~K.patch[K.klp_patches[i + 1]].enabled

\* No stacking rule on enable.
EnableStackAny(K, p) == TRUE

\* The stacking rule of __klp_enable_patch: the patch is the first of the
\* list or the previous patch is enabled.
EnableStackOk(K, p) ==
    LET i == ListPos(K.klp_patches, p)
    IN  i = 1 \/ K.patch[K.klp_patches[i - 1]].enabled

\* __klp_disable_patch.
klp_disable_patch(K, p, env) ==
    IF ~K.patch[p].enabled THEN [ret |-> "EINVAL", K |-> K, trace |-> {}]
    ELSE IF config.STACK /\ ~DisableStackOk(K, p)
         THEN [ret |-> "EBUSY", K |-> K, trace |-> {}]
    ELSE LET r == klp_try_disable_patch(K, p, env)
         IN  IF r.ret # OK
             THEN [ret |-> r.ret, K |-> r.K,
                   trace |-> {"klp_stop_machine"} \cup r.trace]
             ELSE [ret |-> OK, K |-> klp_mem_recycle(r.K, p),
                   trace |-> {"klp_stop_machine", "klp_mem_recycle"}
                                 \cup r.trace]

\* __klp_enable_patch without the klp_mem_recycle of its error exit.
klp_enable_patch_leak(K, p, env) ==
    IF K.patch[p].enabled THEN [ret |-> "EINVAL", K |-> K, trace |-> {}]
    ELSE IF config.STACK /\ ~EnableStackOk(K, p)
         THEN [ret |-> "EBUSY", K |-> K, trace |-> {}]
    ELSE
    LET m == klp_mem_prepare(K, p, env)
        r == klp_try_enable_patch(m.K, p, env)
    IN  IF m.ret # OK
        THEN [ret |-> m.ret, K |-> m.K,
              trace |-> {"klp_mem_prepare"} \cup m.trace]
        ELSE IF r.ret # OK
             THEN [ret |-> r.ret, K |-> r.K,
                   trace |-> {"klp_mem_prepare", "klp_stop_machine"}
                                 \cup r.trace]
        ELSE [ret |-> OK,
              K |-> IF config.STACK THEN r.K
                    ELSE [r.K EXCEPT !.klp_patches =
                              Append(ListDel(@, p), p)],
              trace |-> {"klp_mem_prepare", "klp_stop_machine"}
                            \cup r.trace]

\* __klp_enable_patch.
klp_enable_patch(K, p, env) ==
    IF K.patch[p].enabled THEN [ret |-> "EINVAL", K |-> K, trace |-> {}]
    ELSE IF config.STACK /\ ~EnableStackOk(K, p)
         THEN [ret |-> "EBUSY", K |-> K, trace |-> {}]
    ELSE
    LET m == klp_mem_prepare(K, p, env)
        r == klp_try_enable_patch(m.K, p, env)
    IN  IF m.ret # OK
        THEN [ret |-> m.ret, K |-> m.K,
              trace |-> {"klp_mem_prepare"} \cup m.trace]
        ELSE IF r.ret # OK
             THEN [ret |-> r.ret, K |-> klp_mem_recycle(r.K, p),
                   trace |-> {"klp_mem_prepare", "klp_stop_machine",
                              "klp_mem_recycle"} \cup r.trace]
        ELSE [ret |-> OK,
              K |-> IF config.STACK THEN r.K
                    ELSE [r.K EXCEPT !.klp_patches =
                              Append(ListDel(@, p), p)],
              trace |-> {"klp_mem_prepare", "klp_stop_machine"}
                            \cup r.trace]

\* kstrtobool on the buffer written to the sysfs attribute.
kstrtobool(buf) ==
    IF buf = "1" THEN [ret |-> OK, res |-> TRUE]
    ELSE IF buf = "0" THEN [ret |-> OK, res |-> FALSE]
    ELSE [ret |-> "EINVAL", res |-> FALSE]

\* enabled_store taking a write of 1 to an enabled patch as done.
enabled_store_again(K, p, buf, env) ==
    LET b == kstrtobool(buf)
    IN  IF b.ret # OK THEN [ret |-> b.ret, K |-> K, trace |-> {}]
        ELSE IF ~klp_is_patch_registered(K, p)
             THEN [ret |-> "EINVAL", K |-> K, trace |-> {}]
        ELSE IF K.patch[p].enabled = b.res
             THEN [ret |-> IF b.res THEN OK ELSE "EINVAL",
                   K |-> K, trace |-> {}]
        ELSE IF b.res THEN klp_enable_patch(K, p, env)
        ELSE klp_disable_patch(K, p, env)

\* enabled_store taking a write of 0 for a patch that is not enabled, or
\* not registered, as done.
enabled_store_idle(K, p, buf, env) ==
    LET b == kstrtobool(buf)
    IN  IF b.ret # OK THEN [ret |-> b.ret, K |-> K, trace |-> {}]
        ELSE IF ~klp_is_patch_registered(K, p)
             THEN [ret |-> IF b.res THEN "EINVAL" ELSE OK,
                   K |-> K, trace |-> {}]
        ELSE IF K.patch[p].enabled = b.res
             THEN [ret |-> IF b.res THEN "EINVAL" ELSE OK,
                   K |-> K, trace |-> {}]
        ELSE IF b.res THEN klp_enable_patch(K, p, env)
        ELSE klp_disable_patch(K, p, env)

\* enabled_store: the write handler of the "enabled" attribute.
enabled_store(K, p, buf, env) ==
    LET b == kstrtobool(buf)
    IN  IF b.ret # OK THEN [ret |-> b.ret, K |-> K, trace |-> {}]
        ELSE IF ~klp_is_patch_registered(K, p)
             THEN [ret |-> "EINVAL", K |-> K, trace |-> {}]
        ELSE IF K.patch[p].enabled = b.res
             THEN [ret |-> "EINVAL", K |-> K, trace |-> {}]
        ELSE IF b.res THEN klp_enable_patch(K, p, env)
        ELSE klp_disable_patch(K, p, env)

-----------------------------------------------------------------------------
(* The state machine                                                       *)

\* The kernel state the operations work on.
Kernel == [klp_patches |-> klp_patches, patch |-> patch,
           klp_func_list |-> klp_func_list, mod_refs |-> mod_refs]

Commit(K) ==
    /\ klp_patches' = K.klp_patches
    /\ patch' = K.patch
    /\ klp_func_list' = K.klp_func_list
    /\ mod_refs' = K.mod_refs

\* Build configurations: CONFIG_LIVEPATCH_STACK and CONFIG_PREEMPTION.  A
\* build without CONFIG_LIVEPATCH_RESTRICT_KPROBE behaves as a system on
\* which no kprobe is registered.
Configs == [STACK : BOOLEAN, PREEMPTION : BOOLEAN]

\* What surrounds one enable or disable request: the old functions whose
\* node cannot be allocated or snapshot, the addresses that carry a kprobe,
\* the return addresses on the CPUs' stacks, whether the list of ranges
\* can be allocated, whether the patch module can be pinned, and the old
\* functions whose rewriting fails.
NoFault == [alloc_fail |-> {}, kprobes |-> {}, frames |-> {},
            add_func_fail |-> FALSE, modget_fail |-> FALSE,
            patch_fail |-> {}]

\* The old functions the well-formed descriptors replace.
OldFuncs ==
    {SymTab[i].addr : i \in {j \in DOMAIN SymTab :
                                 SymTab[j].name \in {"foo", "mfoo"}}}

\* Addresses inside those old functions and inside replacement functions.
OldAddrs == {a + 1 : a \in OldFuncs}

NewAddrs == {NewFunc(p, k) + 1 : p \in Patches, k \in 1 .. 2}

\* One fault, or none, per request.
Envs ==
    {NoFault}
        \cup {[NoFault EXCEPT !.alloc_fail = {a}] : a \in OldFuncs}
        \cup {[NoFault EXCEPT !.kprobes = {a}] : a \in OldAddrs}
        \cup {[NoFault EXCEPT !.frames = {a}] : a \in OldAddrs \cup NewAddrs}
        \cup {[NoFault EXCEPT !.add_func_fail = TRUE],
              [NoFault EXCEPT !.modget_fail = TRUE]}
        \cup {[NoFault EXCEPT !.patch_fail = {a}] : a \in OldFuncs}

RegEnvs == {[fail |-> s] : s \in RegFailSteps}

NoRegFault == [fail |-> "none"]

\* Number of online CPUs that take part in a stop_machine() run.
NCpus == 3

Cpus == 1 .. NCpus

num_online_cpus == NCpus

\* No stop_machine() run in flight: an unused patch_data, every CPU
\* outside the function.
NoRun == [patch |-> 0, cpu_count |-> 0, fn |-> "none", env |-> NoFault,
          elected |-> 0]

Idle == [pc |-> "idle", ret |-> OK]

\* Number of tasks that look nodes up without klp_mutex.
NReaders == 2

Readers == 1 .. NReaders

\* klp_mem_recycle not running; no lookup under way.
NoWriter == [pc |-> "idle", patch |-> 0, i |-> 0, node |-> 0,
             waiting |-> {}]

NoLookup == [pc |-> "idle", key |-> 0, pos |-> 0, found |-> 0]

\* Callers of the registry operations that may run at once.
NCallers == 2

Callers == 1 .. NCallers

\* A caller that is in no call; a kobject that was never initialised.
NoCall == [op |-> "none", patch |-> 0, buf |-> "", pc |-> "idle",
           ret |-> OK, put |-> FALSE]

NoKobj == [refs |-> 0, finish |-> FALSE]

\* klp_mutex free, nobody in a call, no kobject.
SyncIdle ==
    /\ klp_mutex = 0
    /\ caller = [c \in Callers |-> NoCall]
    /\ kobj = [p \in Patches |-> NoKobj]

\* The values of klp_target_state and of task->patch_state.
KLP_UNDEFINED == "KLP_UNDEFINED"

KLP_UNPATCHED == "KLP_UNPATCHED"

KLP_PATCHED == "KLP_PATCHED"

\* Tasks that a transition has to take to its side.
NTasks == 2

Tasks == 1 .. NTasks

\* No transition under way, nothing forced, the modules that are live
\* known as alive and no relocation written.
NoTransition ==
    /\ klp_transition_patch = 0
    /\ klp_target_state = KLP_UNDEFINED
    /\ task = [t \in Tasks |-> KLP_UNDEFINED]
    /\ transition = [p \in Patches |-> FALSE]
    /\ forced = [p \in Patches |-> FALSE]
    /\ klp_alive = [m \in TargetModules |->
                        ModuleState[m] = "MODULE_STATE_LIVE"]
    /\ relocs = {}

\* Allocations arch_klp_mem_alloc can hand out: one per old function is
\* all that are ever live at once.
Nodes == 1 .. Cardinality(OldFuncs)

\* Memory that holds no node.
NoNode == [live |-> FALSE, old_func |-> 0, func_stack |-> << >>, frees |-> 0]

\* No node allocated, and no released node read.
NoHeap ==
    heap = [node |-> [n \in Nodes |-> NoNode], list |-> << >>,
            stale |-> FALSE]

\* The exercise not started.
NoExercise ==
    /\ turn = 0
    /\ proc = << >>
    /\ file = << >>

\* No symbol table under examination and no query put.
NoQuery == [table |-> << >>, objname |-> NULL, name |-> NULL, sympos |-> 0,
            ret |-> "none", addr |-> 0, again |-> FALSE]

\* Nothing registered, no request in flight.
Boot ==
    /\ klp_patches = << >>
    /\ patch = [p \in Patches |-> NoPatch]
    /\ klp_func_list = << >>
    /\ mod_refs = [target |-> [m \in TargetModules |-> 0],
                   klp |-> [p \in Patches |-> 0]]
    /\ last = [op |-> "init", patch |-> 0, buf |-> "", ret |-> OK,
               trace |-> {}, frames |-> {}]
    /\ pd = NoRun
    /\ cpu = [c \in Cpus |-> Idle]
    /\ ran = {}
    /\ retired = {}
    /\ writer = NoWriter
    /\ reader = [r \in Readers |-> NoLookup]

Init ==
    /\ config \in Configs
    /\ Boot
    /\ resolver = NoQuery
    /\ SyncIdle
    /\ NoTransition
    /\ NoHeap
    /\ NoExercise

\* The old names the functions of descriptor d ask for.
OldNames(d) ==
    {d.objs.ent[o].funcs.ent[f].old_name :
         <<o, f>> \in {x \in (DOMAIN d.objs.ent) \X (1 .. 2) :
                          x[2] \in DOMAIN d.objs.ent[x[1]].funcs.ent}}

\* A caller registers patch p with descriptor d; the record of the call
\* keeps the old names that were asked for.
Register(p, d, env) ==
    \E r \in {klp_register_patch(Kernel, p, d, env)} :
        /\ Commit(r.K)
        /\ last' = [op |-> "register", patch |-> p, buf |-> "",
                    ret |-> r.ret, trace |-> OldNames(d), frames |-> {}]
        /\ UNCHANGED <<config, apart, pd, cpu, ran, lookups>>

\* The administrator writes buf to the "enabled" attribute of patch p.
EnabledStore(p, buf, env) ==
    \E r \in {enabled_store(Kernel, p, buf, env)} :
        /\ Commit(r.K)
        /\ last' = [op |-> "enabled_store", patch |-> p, buf |-> buf,
                    ret |-> r.ret, trace |-> r.trace,
                    frames |-> env.frames]
        /\ UNCHANGED <<config, apart, pd, cpu, ran, lookups>>

\* A caller unregisters patch p.
Unregister(p) ==
    \E r \in {klp_unregister_patch(Kernel, p)} :
        /\ Commit(r.K)
        /\ last' = [op |-> "unregister", patch |-> p, buf |-> "",
                    ret |-> r.ret, trace |-> {}, frames |-> {}]
        /\ UNCHANGED <<config, apart, pd, cpu, ran, lookups>>

\* Registration with the well-formed descriptor, under every fault.
RegisterValid ==
    \E p \in Patches : \E d \in ValidDescriptors(p), env \in RegEnvs :
        Register(p, d, env)

\* Registration with any descriptor, well-formed or not.
RegisterAny ==
    \E p \in Patches : \E d \in Descriptors(p) : Register(p, d, NoRegFault)

\* A write to the attribute under one fault or none.
Store ==
    \E p \in Patches, buf \in {"1", "0"}, env \in Envs :
        EnabledStore(p, buf, env)

\* A write to the attribute with nothing in its way.
StoreNoFault ==
    \E p \in Patches, buf \in {"1", "0"} : EnabledStore(p, buf, NoFault)

\* A write that is no boolean.
StoreJunk == \E p \in Patches : EnabledStore(p, "x", NoFault)

UnregisterAny == \E p \in Patches : Unregister(p)

\* The life cycle of patches: registration of well-formed patches, enable
\* and disable under faults, unregistration.
Next == RegisterValid \/ Store \/ StoreJunk \/ UnregisterAny

Spec == Init /\ [][Next]_vars

\* Registration of arbitrary descriptors among patches that are enabled
\* and disabled without faults.
NextReg == RegisterValid \/ RegisterAny \/ StoreNoFault \/ UnregisterAny

SpecReg == Init /\ [][NextReg]_vars

\* The values of func->force.
Forces == {KLP_NORMAL_FORCE, KLP_ENFORCEMENT, KLP_STACK_OPTIMIZE}

\* The well-formed descriptor of patch p with the given force on its
\* replacement of foo; the replacement of mfoo is never forced.
ForceDescriptors(p) ==
    { IF p % 2 = 1
      THEN D("klp", Arr(<< Vmlinux(<< F("foo", 0, NewFunc(p, 1), FALSE,
                                        force) >>) >>))
      ELSE D("klp", Arr(<< Vmlinux(<< F("foo", 0, NewFunc(p, 1), FALSE,
                                        force) >>),
                           O("m1", Arr(<< MFooFn(p) >>)) >>))
      : force \in Forces }

\* Return addresses a stack may hold: inside the first bytes of the old
\* function foo, inside its last byte, and inside a replacement of foo.
FrameAddrs ==
    {SymTab[1].addr + 1, SymTab[1].addr + 3}
        \cup {NewFunc(p, 1) + 1 : p \in Patches}

\* A request during which the stacks hold one of those addresses, or none.
ActEnvs == {NoFault} \cup {[NoFault EXCEPT !.frames = {a}] : a \in FrameAddrs}

\* Registration of a well-formed patch with any force.
RegisterForce ==
    \E p \in Patches : \E d \in ForceDescriptors(p) :
        Register(p, d, NoRegFault)

\* A write to the attribute while the stacks hold some frame.
StoreFrames ==
    \E p \in Patches, buf \in {"1", "0"}, env \in ActEnvs :
        EnabledStore(p, buf, env)

\* The life cycle of forced and unforced patches under the activeness check.
NextAct == RegisterForce \/ StoreFrames \/ UnregisterAny

SpecAct == Init /\ [][NextAct]_vars

-----------------------------------------------------------------------------
(* The stop_machine() rendezvous, one step of one CPU at a time            *)

\* The faults one enable or disable request may meet in the rendezvous.
RvEnvs ==
    {NoFault,
     [NoFault EXCEPT !.alloc_fail = {SymTab[5].addr}],
     [NoFault EXCEPT !.kprobes = {SymTab[1].addr + 1}],
     [NoFault EXCEPT !.frames = {SymTab[1].addr + 1}],
     [NoFault EXCEPT !.frames = {NewFunc(1, 1) + 1}],
     [NoFault EXCEPT !.patch_fail = {SymTab[1].addr}]}

\* The registry with no patch.
NoKernel ==
    [klp_patches |-> << >>, patch |-> [p \in Patches |-> NoPatch],
     klp_func_list |-> << >>,
     mod_refs |-> [target |-> [m \in TargetModules |-> 0],
                   klp |-> [p \in Patches |-> 0]]]

\* The registry after patches p .. NPatches were registered in that order.
RECURSIVE RegisterFrom(_, _)
RegisterFrom(K, p) ==
    IF p > NPatches THEN K
    ELSE RegisterFrom(
             klp_register_patch(K, p,
                 CHOOSE d \in ValidDescriptors(p) : TRUE, NoRegFault).K,
             p + 1)

\* Every patch is registered and disabled and no request is in flight; the
\* build is one without CONFIG_PREEMPTION.
InitRv ==
    /\ config \in {c \in Configs : ~c.PREEMPTION}
    /\ \E K \in {RegisterFrom(NoKernel, 1)} :
           /\ klp_patches = K.klp_patches
           /\ patch = K.patch
           /\ klp_func_list = K.klp_func_list
           /\ mod_refs = K.mod_refs
    /\ last = [op |-> "init", patch |-> 0, buf |-> "", ret |-> OK,
               trace |-> {}, frames |-> {}]
    /\ pd = NoRun
    /\ cpu = [c \in Cpus |-> Idle]
    /\ ran = {}
    /\ retired = {}
    /\ writer = NoWriter
    /\ reader = [r \in Readers |-> NoLookup]
    /\ resolver = NoQuery
    /\ SyncIdle
    /\ NoTransition
    /\ NoHeap
    /\ NoExercise

\* What the request in flight returns to enabled_store; "running" until
\* it does.
Returned(p, enable, ret, env) ==
    [op |-> "enabled_store", patch |-> p,
     buf |-> IF enable THEN "1" ELSE "0", ret |-> ret,
     trace |-> {w[2] : w \in ran}, frames |-> env.frames]

\* __klp_enable_patch and __klp_disable_patch up to klp_stop_machine: the
\* stacking rule, klp_mem_prepare for an enable, then the patch_data with
\* cpu_count 0 and fn started on every online CPU.
Begin(p, enable, env) ==
    /\ pd.fn = "none"
    /\ klp_is_patch_registered(Kernel, p)
    /\ patch[p].enabled # enable
    /\ IF config.STACK /\ ~(IF enable THEN EnableStackOk(Kernel, p)
                                      ELSE DisableStackOk(Kernel, p))
       THEN /\ last' = Returned(p, enable, "EBUSY", env)
            /\ UNCHANGED <<klp_patches, patch, klp_func_list, mod_refs,
                           pd, cpu>>
       ELSE \E m \in {IF enable THEN klp_mem_prepare(Kernel, p, env)
                                ELSE [ret |-> OK, K |-> Kernel]} :
                /\ Commit(m.K)
                /\ IF m.ret # OK
                   THEN /\ last' = Returned(p, enable, m.ret, env)
                        /\ UNCHANGED <<pd, cpu>>
                   ELSE /\ pd' = [patch |-> p, cpu_count |-> 0,
                                  fn |-> IF enable
                                         THEN "klp_try_enable_patch"
                                         ELSE "klp_try_disable_patch",
                                  env |-> env, elected |-> 0]
                        /\ cpu' = [c \in Cpus |->
                                      [pc |-> "start", ret |-> OK]]
                        /\ last' = Returned(p, enable, "running", env)
    /\ ran' = {}
    /\ UNCHANGED <<config, apart, lookups>>

\* The position of CPU c becomes pc and its return value ret.
Goto(c, pc, ret) == cpu' = [cpu EXCEPT ![c] = [pc |-> pc, ret |-> ret]]

\* atomic_inc_return(&pd->cpu_count) == 1: the CPU that gets 1 goes on to
\* the checks, every other CPU to the spin loop.
Arrive(c) ==
    /\ cpu[c].pc = "start"
    /\ pd' = [pd EXCEPT !.cpu_count = @ + 1,
                        !.elected = IF pd.cpu_count + 1 = 1 THEN c ELSE @]
    /\ Goto(c, IF pd.cpu_count + 1 = 1 THEN "kprobed" ELSE "spin", OK)
    /\ UNCHANGED <<config, apart, registry, lookups, last, ran>>

\* if (klp_check_patch_kprobed(patch)) return -EINVAL after atomic_inc.
CheckKprobed(c) ==
    /\ cpu[c].pc = "kprobed"
    /\ ran' = ran \cup {<<c, "klp_check_patch_kprobed">>}
    /\ IF klp_check_patch_kprobed(Kernel, pd.patch, pd.env)
       THEN Goto(c, "inc", "EINVAL")
       ELSE Goto(c, "calltrace", OK)
    /\ UNCHANGED <<config, apart, registry, lookups, last, pd>>

\* ret = klp_check_calltrace(patch, enable); if (ret) return ret after
\* atomic_inc.
CheckCalltrace(c) ==
    /\ cpu[c].pc = "calltrace"
    /\ ran' = ran \cup {<<c, "klp_check_calltrace">>}
    /\ \E r \in {klp_check_calltrace(Kernel, pd.patch,
                     pd.fn = "klp_try_enable_patch", pd.env)} :
           IF r # OK THEN Goto(c, "inc", r) ELSE Goto(c, "mutate", OK)
    /\ UNCHANGED <<config, apart, registry, lookups, last, pd>>

\* ret = enable_patch(patch) or ret = disable_patch(patch).
Mutate(c) ==
    /\ cpu[c].pc = "mutate"
    /\ \E r \in {IF pd.fn = "klp_try_enable_patch"
                 THEN enable_patch(Kernel, pd.patch, pd.env)
                 ELSE [ret |-> OK, K |-> disable_patch(Kernel, pd.patch)]} :
           /\ Commit(r.K)
           /\ Goto(c, "inc", r.ret)
    /\ ran' = ran \cup {<<c, IF pd.fn = "klp_try_enable_patch"
                             THEN "enable_patch" ELSE "disable_patch">>}
    /\ UNCHANGED <<config, apart, lookups, last, pd>>

\* The elected CPU's atomic_inc that leaves no error behind unreleased.
Inc_noerr(c) ==
    /\ cpu[c].pc = "inc"
    /\ pd' = [pd EXCEPT !.cpu_count = IF cpu[c].ret = OK THEN @ + 1 ELSE @]
    /\ Goto(c, "done", cpu[c].ret)
    /\ UNCHANGED <<config, apart, registry, lookups, last, ran>>

\* atomic_inc(&pd->cpu_count) of the elected CPU, on the success path and
\* on every error path, then return ret.
Inc(c) ==
    /\ cpu[c].pc = "inc"
    /\ pd' = [pd EXCEPT !.cpu_count = @ + 1]
    /\ Goto(c, "done", cpu[c].ret)
    /\ UNCHANGED <<config, apart, registry, lookups, last, ran>>

\* The loop condition that lets a waiter go once every CPU has arrived.
Spinning_early(cpu_count) == cpu_count < num_online_cpus

\* The loop condition atomic_read(&pd->cpu_count) <= num_online_cpus().
Spinning(cpu_count) == cpu_count <= num_online_cpus

\* while (atomic_read(&pd->cpu_count) <= num_online_cpus()): one read.
Spin(c) ==
    /\ cpu[c].pc = "spin"
    /\ Goto(c, IF Spinning(pd.cpu_count) THEN "relax" ELSE "isb", OK)
    /\ UNCHANGED <<config, apart, registry, lookups, last, pd, ran>>

\* cpu_relax() in the loop body.
Relax(c) ==
    /\ cpu[c].pc = "relax"
    /\ Goto(c, "spin", OK)
    /\ UNCHANGED <<config, apart, registry, lookups, last, pd, ran>>

\* klp_smp_isb() and return 0.
Isb(c) ==
    /\ cpu[c].pc = "isb"
    /\ Goto(c, "done", OK)
    /\ UNCHANGED <<config, apart, registry, lookups, last, pd, ran>>

\* Every CPU has returned from fn.
AllDone == pd.fn # "none" /\ \A c \in Cpus : cpu[c].pc = "done"

\* What stop_machine returns: the error some CPU returned, or 0.
stop_machine_ret ==
    IF \E c \in Cpus : cpu[c].ret # OK
    THEN cpu[CHOOSE c \in Cpus : cpu[c].ret # OK].ret
    ELSE OK

\* __klp_enable_patch and __klp_disable_patch after klp_stop_machine:
\* klp_mem_recycle after a failed enable and after a disable that went
\* through; without CONFIG_LIVEPATCH_STACK an enabled patch moves to the
\* list tail.
Finish ==
    /\ AllDone
    /\ Commit(
         IF pd.fn = "klp_try_enable_patch"
         THEN IF stop_machine_ret # OK THEN klp_mem_recycle(Kernel, pd.patch)
              ELSE IF config.STACK THEN Kernel
              ELSE [Kernel EXCEPT !.klp_patches =
                        Append(ListDel(@, pd.patch), pd.patch)]
         ELSE IF stop_machine_ret # OK THEN Kernel
              ELSE klp_mem_recycle(Kernel, pd.patch))
    /\ last' = Returned(pd.patch, pd.fn = "klp_try_enable_patch",
                        stop_machine_ret, pd.env)
    /\ pd' = NoRun
    /\ cpu' = [c \in Cpus |-> Idle]
    /\ ran' = {}
    /\ UNCHANGED <<config, apart, lookups>>

\* One step of CPU c inside fn.
CpuStep(c) ==
    \/ Arrive(c) \/ CheckKprobed(c) \/ CheckCalltrace(c) \/ Mutate(c)
    \/ Inc(c) \/ Spin(c) \/ Relax(c) \/ Isb(c)

BeginAny ==
    \E p \in Patches, enable \in BOOLEAN, env \in RvEnvs :
        Begin(p, enable, env)

NextRv == BeginAny \/ (\E c \in Cpus : CpuStep(c)) \/ Finish

\* Enable and disable requests with the rendezvous run step by step.
SpecRv == InitRv /\ [][NextRv]_vars

\* The same under a scheduler that lets every CPU inside fn run again and
\* again.
SpecRvFair == SpecRv /\ \A c \in Cpus : WF_vars(CpuStep(c))

-----------------------------------------------------------------------------
(* Node reclamation against lock-free lookups                              *)

\* The list head, as a position of list_for_each_entry_rcu.
HEAD == 0

\* The old functions lookups ask for.
Keys == {SymTab[1].addr, SymTab[5].addr}

\* Node n is linked in klp_func_list.
Linked(n) == klp_find_func_node(klp_func_list, n) # 0

\* Node n was given back to the allocator.
Freed(n) == \E z \in retired : z.old_func = n /\ z.freed

\* The ->next pointer a reader loads at position pos: of the list head, of
\* a linked node, or the one list_del_rcu left in an unlinked node.
NextOf(pos) ==
    IF pos = HEAD
    THEN IF klp_func_list = << >> THEN HEAD ELSE klp_func_list[1].old_func
    ELSE IF Linked(pos)
         THEN IF klp_find_func_node(klp_func_list, pos) = Len(klp_func_list)
              THEN HEAD
              ELSE klp_func_list[klp_find_func_node(klp_func_list, pos) + 1]
                       .old_func
    ELSE (CHOOSE z \in retired : z.old_func = pos).next

\* Reader r is inside its read-side critical section.
InReadSide(r) == reader[r].pc # "idle"

\* Every patch is registered and disabled; nothing runs.
InitRcu == InitRv

\* enabled_store of 1 with nothing in its way, while klp_mem_recycle is
\* not running: klp_mem_prepare publishes the nodes with list_add_rcu.  A
\* node allocated anew takes the place of the freed one of that address.
RcuEnable(p) ==
    /\ writer.pc = "idle"
    /\ \E r \in {enabled_store(Kernel, p, "1", NoFault)} :
           /\ Commit(r.K)
           /\ last' = [op |-> "enabled_store", patch |-> p, buf |-> "1",
                       ret |-> r.ret, trace |-> r.trace, frames |-> {}]
           /\ retired' = {z \in retired :
                             klp_find_func_node(r.K.klp_func_list,
                                                z.old_func) = 0}
    /\ UNCHANGED <<config, apart, pd, cpu, ran, writer, reader>>

\* __klp_disable_patch up to the return of klp_stop_machine with nothing in
\* its way: the elected CPU ran disable_patch; klp_mem_recycle starts.
RcuDisable(p) ==
    /\ writer.pc = "idle"
    /\ klp_is_patch_registered(Kernel, p)
    /\ patch[p].enabled
    /\ ~(config.STACK /\ ~DisableStackOk(Kernel, p))
    /\ Commit(disable_patch(Kernel, p))
    /\ last' = [op |-> "enabled_store", patch |-> p, buf |-> "0",
                ret |-> "running", trace |-> {}, frames |-> {}]
    /\ writer' = [pc |-> "clear", patch |-> p, i |-> 1, node |-> 0,
                  waiting |-> {}]
    /\ UNCHANGED <<config, apart, pd, cpu, ran, retired, reader>>

\* klp_unregister_patch while klp_mem_recycle is not running.
RcuUnregister(p) ==
    /\ writer.pc = "idle"
    /\ \E r \in {klp_unregister_patch(Kernel, p)} :
           /\ Commit(r.K)
           /\ last' = [op |-> "unregister", patch |-> p, buf |-> "",
                       ret |-> r.ret, trace |-> {}, frames |-> {}]
    /\ UNCHANGED <<config, apart, pd, cpu, ran, lookups>>

\* klp_mem_recycle goes on to the next function of the patch, or returns.
NextFunc ==
    IF writer.i < Len(FuncRefs(patch[writer.patch]))
    THEN [writer EXCEPT !.pc = "clear", !.i = @ + 1, !.node = 0]
    ELSE NoWriter

\* The request returns once klp_mem_recycle has.
Recycled(w) ==
    IF w.pc = "idle" THEN last' = [last EXCEPT !.ret = OK]
    ELSE UNCHANGED last

\* func_node_free up to list_empty: func->func_node = NULL, and whether
\* the node's stack is empty.
ClearHandle ==
    /\ writer.pc = "clear"
    /\ LET r    == FuncRefs(patch[writer.patch])[writer.i]
           func == FuncOf(Kernel, writer.patch, r)
       IN  IF func.func_node = 0
           THEN /\ writer' = NextFunc
                /\ Recycled(NextFunc)
                /\ UNCHANGED patch
           ELSE /\ patch' = [patch EXCEPT
                               ![writer.patch].obj_list[r[1]].func_list[r[2]]
                                   .func_node = 0]
                /\ IF FuncStack(Kernel, func.func_node) = << >>
                   THEN /\ writer' = [writer EXCEPT
                                        !.pc = "del",
                                        !.node = func.func_node]
                        /\ UNCHANGED last
                   ELSE /\ writer' = NextFunc
                        /\ Recycled(NextFunc)
    /\ UNCHANGED <<config, apart, klp_patches, klp_func_list, mod_refs, pd, cpu,
                   ran, retired, reader>>

\* klp_del_func_node: list_del_rcu takes the node off the list and leaves
\* its ->next as it was.
DelFuncNode ==
    /\ writer.pc = "del"
    /\ klp_func_list' =
           SelectSeq(klp_func_list, LAMBDA n : n.old_func # writer.node)
    /\ retired' = {z \in retired : z.old_func # writer.node}
                      \cup {[old_func |-> writer.node,
                             next |-> NextOf(writer.node),
                             freed |-> FALSE]}
    /\ writer' = [writer EXCEPT !.pc = "sync"]
    /\ UNCHANGED <<config, apart, klp_patches, patch, mod_refs, last, pd, cpu, ran,
                   reader>>

\* A synchronize_rcu that waits for nobody.
synchronize_rcu_nowait ==
    /\ writer.pc = "sync"
    /\ writer' = [writer EXCEPT !.pc = "wait", !.waiting = {}]
    /\ UNCHANGED <<config, apart, registry, last, pd, cpu, ran, retired, reader>>

\* synchronize_rcu is called: it waits for every reader that is inside a
\* read-side critical section now.
synchronize_rcu ==
    /\ writer.pc = "sync"
    /\ writer' = [writer EXCEPT
                    !.pc = "wait",
                    !.waiting = {r \in Readers : InReadSide(r)}]
    /\ UNCHANGED <<config, apart, registry, last, pd, cpu, ran, retired, reader>>

\* synchronize_rcu returns: each of those readers has left.
GraceEnd ==
    /\ writer.pc = "wait"
    /\ writer.waiting = {}
    /\ writer' = [writer EXCEPT !.pc = "kfree"]
    /\ UNCHANGED <<config, apart, registry, last, pd, cpu, ran, retired, reader>>

\* arch_klp_mem_free(func_node).
MemFree ==
    /\ writer.pc = "kfree"
    /\ retired' = {IF z.old_func = writer.node
                   THEN [z EXCEPT !.freed = TRUE] ELSE z : z \in retired}
    /\ writer' = NextFunc
    /\ Recycled(NextFunc)
    /\ UNCHANGED <<config, apart, registry, pd, cpu, ran, reader>>

WriterStep ==
    ClearHandle \/ DelFuncNode \/ synchronize_rcu \/ GraceEnd \/ MemFree

\* rcu_read_lock and the call of klp_find_func_node(key).
ReadLock(r, key) ==
    /\ reader[r].pc = "idle"
    /\ reader' = [reader EXCEPT
                    ![r] = [pc |-> "next", key |-> key, pos |-> HEAD,
                            found |-> 0]]
    /\ UNCHANGED <<config, apart, registry, last, pd, cpu, ran, retired, writer>>

\* list_for_each_entry_rcu: load the next position; the walk is over when
\* it is the list head again, and klp_find_func_node returns NULL.
ReadNext(r) ==
    /\ reader[r].pc = "next"
    /\ reader' = [reader EXCEPT
                    ![r].pos = NextOf(reader[r].pos),
                    ![r].pc = IF NextOf(reader[r].pos) = HEAD
                              THEN "unlock" ELSE "deref"]
    /\ UNCHANGED <<config, apart, registry, last, pd, cpu, ran, retired, writer>>

\* if (func_node->old_func == old_func) return func_node: the node at the
\* position is read.
ReadDeref(r) ==
    /\ reader[r].pc = "deref"
    /\ reader' = [reader EXCEPT
                    ![r].found = IF reader[r].pos = reader[r].key
                                 THEN reader[r].pos ELSE 0,
                    ![r].pc = IF reader[r].pos = reader[r].key
                              THEN "unlock" ELSE "next"]
    /\ UNCHANGED <<config, apart, registry, last, pd, cpu, ran, retired, writer>>

\* rcu_read_unlock: a grace period that waits for this reader may end.
ReadUnlock(r) ==
    /\ reader[r].pc = "unlock"
    /\ reader' = [reader EXCEPT ![r] = NoLookup]
    /\ writer' = [writer EXCEPT !.waiting = @ \ {r}]
    /\ UNCHANGED <<config, apart, registry, last, pd, cpu, ran, retired>>

\* A reader inside its read-side critical section goes on.
ReaderStep(r) == ReadNext(r) \/ ReadDeref(r) \/ ReadUnlock(r)

NextRcu ==
    \/ \E p \in Patches : RcuEnable(p) \/ RcuDisable(p) \/ RcuUnregister(p)
    \/ WriterStep
    \/ \E r \in Readers : (\E key \in Keys : ReadLock(r, key))
                              \/ ReaderStep(r)

\* Enable, disable and unregistration with klp_mem_recycle run one step at
\* a time against lock-free lookups.
SpecRcu == InitRcu /\ [][NextRcu]_vars

\* The same when klp_mem_recycle keeps running and every reader leaves its
\* read-side critical section.
SpecRcuFair ==
    SpecRcu /\ WF_vars(WriterStep) /\ \A r \in Readers : WF_vars(ReaderStep(r))

-----------------------------------------------------------------------------
(* The resolver on its own, over every small symbol table                  *)

\* Most symbols of a table.
MaxSyms == 3

\* Names of symbols; objects (the base image and one module); addresses,
\* among them address 0, where the absolute per-CPU symbols of some
\* architectures are.
SymNames == {"a", "b"}

SymObjs == {NULL, "m1"}

SymAddrs == 0 .. MaxSyms

\* The symbol tables: up to MaxSyms symbols, at addresses of their own.
SymTabs ==
    UNION {{T \in [1 .. n -> [obj : SymObjs, name : SymNames,
                              addr : SymAddrs]] :
                \A i, j \in 1 .. n : T[i].addr = T[j].addr => i = j} :
               n \in 0 .. MaxSyms}

InitSym ==
    /\ config = [STACK |-> TRUE, PREEMPTION |-> FALSE]
    /\ Boot
    /\ SyncIdle
    /\ NoTransition
    /\ NoHeap
    /\ NoExercise
    /\ \E T \in SymTabs : resolver = [NoQuery EXCEPT !.table = T]

\* A call of klp_find_object_symbol on the table.
Lookup(objname, name, sympos) ==
    /\ \E r \in {klp_find_object_symbol(resolver.table, objname, name,
                                        sympos)} :
           resolver' = [table |-> resolver.table, objname |-> objname,
                        name |-> name, sympos |-> sympos,
                        ret |-> r.ret, addr |-> r.addr, again |-> FALSE]
    /\ UNCHANGED <<config, heap, exercise,
                   registry, last, pd, cpu, ran, lookups, sync,
                   gradual>>

\* The same call once more.
Again ==
    /\ resolver.ret # "none"
    /\ \E r \in {klp_find_object_symbol(resolver.table, resolver.objname,
                                        resolver.name, resolver.sympos)} :
           resolver' = [resolver EXCEPT !.ret = r.ret, !.addr = r.addr,
                                        !.again = TRUE]
    /\ UNCHANGED <<config, heap, exercise,
                   registry, last, pd, cpu, ran, lookups, sync,
                   gradual>>

LookupAny ==
    \E objname \in SymObjs, name \in SymNames, sympos \in 0 .. MaxSyms :
        Lookup(objname, name, sympos)

NextSym == LookupAny \/ Again

SpecSym == InitSym /\ [][NextSym]_vars

-----------------------------------------------------------------------------
(* Observations used by the properties                                     *)

Registered(p) == klp_is_patch_registered(Kernel, p)

\* Every object and every function of patch p is patched, with a node.
AllPatched(p) ==
    \A o \in DOMAIN patch[p].obj_list :
        /\ patch[p].obj_list[o].patched
        /\ \A f \in DOMAIN patch[p].obj_list[o].func_list :
               /\ patch[p].obj_list[o].func_list[f].patched
               /\ patch[p].obj_list[o].func_list[f].func_node # 0

\* No object and no function of patch p is patched or holds a node.
NonePatched(p) ==
    \A o \in DOMAIN patch[p].obj_list :
        /\ ~patch[p].obj_list[o].patched
        /\ \A f \in DOMAIN patch[p].obj_list[o].func_list :
               /\ ~patch[p].obj_list[o].func_list[f].patched
               /\ patch[p].obj_list[o].func_list[f].func_node = 0

\* Number of functions of patch p.
NFuncs(p) == Len(FuncRefs(patch[p]))

ValidDesc(p) == CHOOSE d \in ValidDescriptors(p) : TRUE

\* Patch p may be enabled (disabled) as far as the stacking rule goes.
MayEnable(p) == config.STACK => EnableStackOk(Kernel, p)

MayDisable(p) == config.STACK => DisableStackOk(Kernel, p)

\* The call just made: operation, patch and, for a write, the value.
Called(op, p) == last'.op = op /\ last'.patch = p

Stored(p, buf) == Called("enabled_store", p) /\ last'.buf = buf

\* Life-cycle state of a patch.
PState(p) ==
    IF ~Registered(p) THEN "Unregistered"
    ELSE IF patch[p].enabled THEN "Enabled" ELSE "Disabled"

-----------------------------------------------------------------------------
(* Callers that run at once: klp_mutex and the kobject of a patch          *)

\* The registration requests: one with nothing in its way and one whose
\* kobject_add fails.
MxRegEnvs == {NoRegFault, [fail |-> "patch_kobject_add"]}

InitMx ==
    /\ config = [STACK |-> TRUE, PREEMPTION |-> FALSE]
    /\ Boot
    /\ resolver = NoQuery
    /\ SyncIdle
    /\ NoTransition
    /\ NoHeap
    /\ NoExercise

\* Somebody registers or unregisters patch p: the init or exit function of
\* the module that carries the patch is running.
InRegistration(p) ==
    \E c \in Callers :
        caller[c].op \in {"register", "unregister"} /\ caller[c].patch = p

\* The part of a call that runs before mutex_lock: the pointer tests of
\* klp_register_patch, kstrtobool of enabled_store.
Entry(op, p, buf) ==
    IF op = "register" /\ ~RegisterShapeOk(ValidDesc(p))
    THEN [pc |-> "done", ret |-> "EINVAL"]
    ELSE IF op = "enabled_store" /\ kstrtobool(buf).ret # OK
         THEN [pc |-> "done", ret |-> kstrtobool(buf).ret]
    ELSE [pc |-> "lock", ret |-> OK]

\* The order of the steps of a call with the kobject dropped and awaited
\* before klp_mutex is released.
After_locked(pc, put) ==
    IF pc = "lock" THEN "section"
    ELSE IF pc = "section" THEN (IF put THEN "put" ELSE "unlock")
    ELSE IF pc = "put" THEN "wait"
    ELSE IF pc = "wait" THEN "unlock"
    ELSE "done"

\* The order of the steps of a call: mutex_lock, the section under the
\* mutex, mutex_unlock and then, in klp_unregister_patch and on the error
\* exit of klp_register_patch, kobject_put and wait_for_completion.
After(pc, put) ==
    IF pc = "lock" THEN "section"
    ELSE IF pc = "section" THEN "unlock"
    ELSE IF pc = "unlock" THEN (IF put THEN "put" ELSE "done")
    ELSE IF pc = "put" THEN "wait"
    ELSE "done"

Advance(c, put) ==
    [caller EXCEPT ![c].pc = After(caller[c].pc, put)]

\* Dropping one reference of a kobject; the release callback
\* klp_kobj_release_patch completes patch->finish when it was the last.
kobject_put(k) ==
    [refs |-> k.refs - 1, finish |-> k.finish \/ k.refs = 1]

\* A caller enters a call.  A write to the attribute of a patch is made
\* through the sysfs file of its kobject and holds a reference on it until
\* the write returns.
Call(c, op, p, buf) ==
    /\ caller[c].pc = "idle"
    /\ ~(op \in {"register", "unregister"} /\ InRegistration(p))
    /\ ~(op = "enabled_store" /\ kobj[p].refs = 0)
    /\ \E e \in {Entry(op, p, buf)} :
           caller' = [caller EXCEPT ![c] =
                          [op |-> op, patch |-> p, buf |-> buf, pc |-> e.pc,
                           ret |-> e.ret, put |-> FALSE]]
    /\ kobj' = IF op = "enabled_store"
               THEN [kobj EXCEPT ![p].refs = @ + 1] ELSE kobj
    /\ UNCHANGED <<config, heap, exercise,
                   registry, last, pd, cpu, ran, lookups, resolver,
                   gradual,
                   klp_mutex>>

\* mutex_lock that does not wait for the holder.
mutex_lock_nowait(c) ==
    /\ caller[c].pc = "lock"
    /\ klp_mutex' = c
    /\ caller' = Advance(c, FALSE)
    /\ UNCHANGED <<config, heap, exercise,
                   registry, last, pd, cpu, ran, lookups, resolver,
                   gradual,
                   kobj>>

\* mutex_lock(&klp_mutex).
mutex_lock(c) ==
    /\ caller[c].pc = "lock"
    /\ klp_mutex = 0
    /\ klp_mutex' = c
    /\ caller' = Advance(c, FALSE)
    /\ UNCHANGED <<config, heap, exercise,
                   registry, last, pd, cpu, ran, lookups, resolver,
                   gradual,
                   kobj>>

\* What the call does between mutex_lock and mutex_unlock, and whether it
\* leaves a kobject to drop: klp_unregister_patch after
\* klp_free_patch_start, klp_register_patch on its error exit.
InSection(K, op, p, buf) ==
    IF op = "register"
    THEN Let(klp_register_patch(K, p, ValidDesc(p), [fail |-> buf]),
             LAMBDA r :
                 [ret |-> r.ret, K |-> r.K,
                  init |-> ~klp_is_patch_registered(K, p),
                  put |-> ~klp_is_patch_registered(K, p) /\ r.ret # OK])
    ELSE IF op = "unregister"
    THEN Let(klp_unregister_patch(K, p), LAMBDA r :
                 [ret |-> r.ret, K |-> r.K, init |-> FALSE,
                  put |-> r.ret = OK])
    ELSE IF op = "enabled_store"
    THEN Let(enabled_store(K, p, buf, NoFault), LAMBDA r :
                 [ret |-> r.ret, K |-> r.K, init |-> FALSE, put |-> FALSE])
    ELSE [ret |-> OK, K |-> K, init |-> FALSE, put |-> FALSE]

\* The section of a call under klp_mutex.  klp_init_patch_early gives the
\* kobject its first reference and an incomplete patch->finish.
Section(c) ==
    /\ caller[c].pc = "section"
    /\ \E r \in {InSection(Kernel, caller[c].op, caller[c].patch,
                           caller[c].buf)} :
           /\ Commit(r.K)
           /\ caller' = [Advance(c, r.put) EXCEPT ![c].ret = r.ret,
                                                  ![c].put = r.put]
           /\ kobj' = IF r.init
                      THEN [kobj EXCEPT ![caller[c].patch] =
                                [refs |-> 1, finish |-> FALSE]]
                      ELSE kobj
    /\ UNCHANGED <<config, heap, exercise,
                   last, pd, cpu, ran, lookups, resolver, klp_mutex,
                   gradual>>

\* mutex_unlock(&klp_mutex).
mutex_unlock(c) ==
    /\ caller[c].pc = "unlock"
    /\ klp_mutex' = IF klp_mutex = c THEN 0 ELSE klp_mutex
    /\ caller' = Advance(c, caller[c].put)
    /\ UNCHANGED <<config, heap, exercise,
                   registry, last, pd, cpu, ran, lookups, resolver,
                   gradual,
                   kobj>>

\* kobject_put(&patch->kobj) of the caller that frees the patch.
PutKobj(c) ==
    /\ caller[c].pc = "put"
    /\ kobj' = [kobj EXCEPT ![caller[c].patch] = kobject_put(@)]
    /\ caller' = Advance(c, caller[c].put)
    /\ UNCHANGED <<config, heap, exercise,
                   registry, last, pd, cpu, ran, lookups, resolver,
                   gradual,
                   klp_mutex>>

\* wait_for_completion(&patch->finish).
wait_for_completion(c) ==
    /\ caller[c].pc = "wait"
    /\ kobj[caller[c].patch].finish
    /\ caller' = Advance(c, caller[c].put)
    /\ UNCHANGED <<config, heap, exercise,
                   registry, last, pd, cpu, ran, lookups, resolver,
                   gradual,
                   klp_mutex, kobj>>

\* The call returns; a write to the attribute lets go of the kobject.
Return(c) ==
    /\ caller[c].pc = "done"
    /\ caller' = [caller EXCEPT ![c] = NoCall]
    /\ kobj' = IF caller[c].op = "enabled_store"
               THEN [kobj EXCEPT ![caller[c].patch] = kobject_put(@)]
               ELSE kobj
    /\ UNCHANGED <<config, heap, exercise,
                   registry, last, pd, cpu, ran, lookups, resolver,
                   gradual,
                   klp_mutex>>

\* A step of a caller that is in a call.
CallerStep(c) ==
    \/ mutex_lock(c)
    \/ Section(c)
    \/ mutex_unlock(c)
    \/ PutKobj(c)
    \/ wait_for_completion(c)
    \/ Return(c)

CallAny ==
    \E c \in Callers, p \in Patches :
        \/ \E env \in MxRegEnvs : Call(c, "register", p, env.fail)
        \/ Call(c, "unregister", p, "")
        \/ \E buf \in {"1", "0"} : Call(c, "enabled_store", p, buf)
        \/ Call(c, "state_show", p, "")

NextMx == CallAny \/ \E c \in Callers : CallerStep(c)

SpecMx == InitMx /\ [][NextMx]_vars

-----------------------------------------------------------------------------
(* The variant built with ftrace: one patch at a time in transition        *)

\* The state the calls of this variant work on.
Gradual ==
    [klp_patches |-> klp_patches, patch |-> patch, kobj |-> kobj,
     mod_refs |-> mod_refs,
     klp_transition_patch |-> klp_transition_patch,
     klp_target_state |-> klp_target_state, task |-> task,
     transition |-> transition, forced |-> forced,
     klp_alive |-> klp_alive, relocs |-> relocs]

CommitGradual(G) ==
    /\ klp_patches' = G.klp_patches
    /\ patch' = G.patch
    /\ kobj' = G.kobj
    /\ mod_refs' = G.mod_refs
    /\ klp_transition_patch' = G.klp_transition_patch
    /\ klp_target_state' = G.klp_target_state
    /\ task' = G.task
    /\ transition' = G.transition
    /\ forced' = G.forced
    /\ klp_alive' = G.klp_alive
    /\ relocs' = G.relocs

\* What surrounds a call of klp_enable_patch: whether kobject_add fails,
\* whether klp_patch_object fails, and whether klp_try_complete_transition
\* finds every task ready to be switched at once.
GradualEnvs == [init_fail : BOOLEAN, patch_fail : BOOLEAN, ready : BOOLEAN]

Opposite(state) ==
    IF state = KLP_PATCHED THEN KLP_UNPATCHED ELSE KLP_PATCHED

\* The patched flag of every loaded object and of its functions set to v:
\* klp_patch_object for every object, klp_unpatch_objects.
SetPatched(pt, v) ==
    [pt EXCEPT !.obj_list =
         [i \in DOMAIN @ |->
              IF klp_is_object_loaded(@[i])
              THEN [@[i] EXCEPT !.patched = v,
                                !.func_list =
                                    [j \in DOMAIN @ |->
                                         [@[j] EXCEPT !.patched = v]]]
              ELSE @[i]]]

\* klp_find_object_module with ftrace: obj->mod is set, without a
\* reference, when the module is found and alive.
FindObjectModule(obj, alive) ==
    IF klp_is_module(obj) /\ obj.name \in TargetModules /\ alive[obj.name]
    THEN [obj EXCEPT !.mod = obj.name]
    ELSE obj

\* The body of the loop of klp_init_object_loaded with ftrace, for one
\* function: the address and the sizes are looked up.
InitFuncLoadedGradual(objname, func) ==
    Let(klp_find_object_symbol(SymTab, objname, func.old_name,
                               func.old_sympos),
        LAMBDA sym :
    Let([func EXCEPT !.old_func = sym.addr], LAMBDA f1 :
        IF sym.ret # OK THEN [ret |-> sym.ret, func |-> f1]
        ELSE
    Let(kallsyms_lookup_size_offset(f1.old_func), LAMBDA osz :
        IF osz.ret = 0 THEN [ret |-> "ENOENT", func |-> f1]
        ELSE
    Let([f1 EXCEPT !.old_size = osz.size,
                   !.new_func = IF f1.nop THEN f1.old_func ELSE @],
        LAMBDA f2 :
    Let(kallsyms_lookup_size_offset(f2.new_func), LAMBDA nsz :
        IF nsz.ret = 0 THEN [ret |-> "ENOENT", func |-> f2]
        ELSE [ret |-> OK, func |-> [f2 EXCEPT !.new_size = nsz.size]])))))

RECURSIVE InitFuncsLoadedGradual(_, _, _)
InitFuncsLoadedGradual(objname, funcs, i) ==
    IF i > Len(funcs) THEN [ret |-> OK, funcs |-> funcs]
    ELSE Let(InitFuncLoadedGradual(objname, funcs[i]), LAMBDA r :
         Let([funcs EXCEPT ![i] = r.func], LAMBDA fs :
             IF r.ret # OK THEN [ret |-> r.ret, funcs |-> fs]
             ELSE InitFuncsLoadedGradual(objname, fs, i + 1)))

\* klp_init_object_loaded with ftrace, for object o of patch p: the
\* relocations of a module are written (relocs_fail tells that
\* klp_apply_object_relocs fails), then every function is resolved.
InitObjectLoadedGradual(G, p, o, relocs_fail) ==
    Let(G.patch[p].obj_list[o], LAMBDA obj :
        IF klp_is_module(obj) /\ relocs_fail
        THEN [ret |-> "EINVAL", G |-> G]
        ELSE Let(InitFuncsLoadedGradual(obj.name, obj.func_list, 1),
                 LAMBDA r :
                 [ret |-> r.ret,
                  G |-> [G EXCEPT
                           !.patch[p].obj_list[o].func_list = r.funcs,
                           !.relocs = IF klp_is_module(obj)
                                      THEN @ \cup {<<p, obj.name>>}
                                      ELSE @]]))

\* The klp_init_object loop of klp_init_patch with ftrace, from object o
\* on: the module of the object is looked for and a loaded object is
\* initialised further.
RECURSIVE InitObjectsGradual(_, _, _)
InitObjectsGradual(G, p, o) ==
    IF o > Len(G.patch[p].obj_list) THEN [ret |-> OK, G |-> G]
    ELSE Let([G EXCEPT !.patch[p].obj_list[o] =
                           FindObjectModule([@ EXCEPT !.patched = FALSE,
                                                      !.mod = NULL],
                                            G.klp_alive)],
             LAMBDA G1 :
             IF ~klp_is_object_loaded(G1.patch[p].obj_list[o])
             THEN InitObjectsGradual(G1, p, o + 1)
             ELSE Let(InitObjectLoadedGradual(G1, p, o, FALSE), LAMBDA r :
                      IF r.ret # OK THEN r
                      ELSE InitObjectsGradual(r.G, p, o + 1)))

\* klp_init_patch with ftrace: kobject_add, every object initialised, the
\* patch linked at the tail of klp_patches.
InitPatchGradual(G, p, env) ==
    IF env.init_fail THEN [ret |-> "ENOMEM", G |-> G]
    ELSE Let(InitObjectsGradual(G, p, 1), LAMBDA r :
             IF r.ret # OK THEN r
             ELSE [ret |-> OK,
                   G |-> [r.G EXCEPT !.klp_patches = Append(@, p)]])

\* klp_init_transition: the patch and the target are published, every task
\* starts on the other side and the functions of the patch are marked.
klp_init_transition(G, p, state) ==
    [G EXCEPT !.klp_transition_patch = p,
              !.klp_target_state = state,
              !.task = [t \in Tasks |-> Opposite(state)],
              !.transition[p] = TRUE]

\* klp_complete_transition: after a transition to the unpatched side the
\* objects are unpatched; the marks, the sides of the tasks, the target
\* and the patch in transition are cleared.
klp_complete_transition(G) ==
    Let(G.klp_transition_patch, LAMBDA p :
        [G EXCEPT !.patch[p] = IF G.klp_target_state = KLP_UNPATCHED
                               THEN SetPatched(@, FALSE) ELSE @,
                  !.transition[p] = FALSE,
                  !.task = [t \in Tasks |-> KLP_UNDEFINED],
                  !.klp_target_state = KLP_UNDEFINED,
                  !.klp_transition_patch = 0])

\* klp_free_patch_start with ftrace: unlink the patch and its objects.
FreePatchStart(G, p) ==
    [G EXCEPT !.klp_patches = ListDel(@, p), !.patch[p].obj_list = << >>]

\* klp_try_complete_transition: the tasks in ready are switched to the
\* target; when every task is there the transition is completed, and a
\* patch that ends disabled is handed to klp_free_patch_async.
klp_try_complete_transition(G, ready) ==
    Let([G EXCEPT !.task = [t \in Tasks |->
                                IF t \in ready THEN G.klp_target_state
                                ELSE @[t]]],
        LAMBDA G1 :
            IF \E t \in Tasks : G1.task[t] # G1.klp_target_state THEN G1
            ELSE Let(klp_complete_transition(G1), LAMBDA G2 :
                     IF G2.patch[G.klp_transition_patch].enabled THEN G2
                     ELSE FreePatchStart(G2, G.klp_transition_patch)))

\* klp_cancel_transition: the transition that did not start is completed
\* towards the unpatched side.
klp_cancel_transition(G) ==
    klp_complete_transition([G EXCEPT !.klp_target_state = KLP_UNPATCHED])

\* klp_reverse_transition: the enabled flag and the target are flipped;
\* the tasks keep the side they are on.
klp_reverse_transition(G) ==
    [G EXCEPT !.patch[G.klp_transition_patch].enabled = ~@,
              !.klp_target_state = Opposite(@)]

\* __klp_disable_patch with ftrace, starting a transition whatever patch
\* is in transition.
disable_patch_gradual_any(G, p, ready) ==
    IF ~G.patch[p].enabled THEN [ret |-> "EINVAL", G |-> G, trace |-> {}]
    ELSE Let(klp_init_transition(G, p, KLP_UNPATCHED), LAMBDA G1 :
             [ret |-> OK,
              G |-> klp_try_complete_transition(
                        [G1 EXCEPT !.patch[p].enabled = FALSE], ready),
              trace |-> {"klp_init_transition", "klp_start_transition"}])

\* __klp_disable_patch with ftrace.
disable_patch_gradual(G, p, ready) ==
    IF ~G.patch[p].enabled THEN [ret |-> "EINVAL", G |-> G, trace |-> {}]
    ELSE IF G.klp_transition_patch # 0
         THEN [ret |-> "EBUSY", G |-> G, trace |-> {}]
    ELSE Let(klp_init_transition(G, p, KLP_UNPATCHED), LAMBDA G1 :
             [ret |-> OK,
              G |-> klp_try_complete_transition(
                        [G1 EXCEPT !.patch[p].enabled = FALSE], ready),
              trace |-> {"klp_init_transition", "klp_start_transition"}])

\* __klp_enable_patch with ftrace.
enable_patch_gradual(G, p, env) ==
    IF G.klp_transition_patch # 0
    THEN [ret |-> "EBUSY", G |-> G, trace |-> {}]
    ELSE IF G.patch[p].enabled THEN [ret |-> "EINVAL", G |-> G, trace |-> {}]
    ELSE Let(klp_init_transition(G, p, KLP_PATCHED), LAMBDA G1 :
             IF env.patch_fail
             THEN [ret |-> "EINVAL", G |-> klp_cancel_transition(G1),
                   trace |-> {"klp_init_transition", "klp_patch_object",
                              "klp_cancel_transition"}]
             ELSE [ret |-> OK,
                   G |-> klp_try_complete_transition(
                             [G1 EXCEPT !.patch[p] =
                                  [SetPatched(@, TRUE)
                                       EXCEPT !.enabled = TRUE]],
                             IF env.ready THEN Tasks ELSE {}),
                   trace |-> {"klp_init_transition", "klp_patch_object",
                              "klp_start_transition"}])

\* klp_enable_patch, called from the init function of a patch module
\* that was just loaded (none of its relocations for a module is written
\* yet): a reference on the module of the patch is taken, the patch is
\* initialised and enabled; on an error it is freed, its kobject dropped,
\* the release awaited and the reference given back.
klp_enable_patch_gradual(G, p, d, env) ==
    IF ~RegisterShapeOk(d) THEN [ret |-> "EINVAL", G |-> G, trace |-> {}]
    ELSE
    Let([G EXCEPT !.mod_refs.klp[PatchMod(p)] = @ + 1,
                  !.patch[p] = klp_init_patch_early(d),
                  !.forced[p] = FALSE,
                  !.relocs = {r \in @ : r[1] # p},
                  !.kobj[p] = [refs |-> 1, finish |-> FALSE]], LAMBDA G0 :
    Let(InitPatchGradual(G0, p, env), LAMBDA i :
    Let(IF i.ret # OK THEN [ret |-> i.ret, G |-> i.G, trace |-> {}]
        ELSE enable_patch_gradual(i.G, p, env), LAMBDA r :
        IF r.ret = OK THEN r
        ELSE [ret |-> r.ret,
              G |-> [FreePatchStart(r.G, p)
                         EXCEPT !.kobj[p] = kobject_put(@),
                                !.mod_refs.klp[PatchMod(p)] = @ - 1],
              trace |-> r.trace])))

\* enabled_store with ftrace, taking every write of 0 to an enabled patch
\* to __klp_disable_patch.
enabled_store_gradual_noreverse(G, p, buf) ==
    LET b == kstrtobool(buf)
    IN  IF b.ret # OK THEN [ret |-> b.ret, G |-> G, trace |-> {}]
        ELSE IF G.patch[p].enabled = b.res
             THEN [ret |-> "EINVAL", G |-> G, trace |-> {}]
        ELSE IF ~b.res THEN disable_patch_gradual(G, p, {})
        ELSE [ret |-> "EINVAL", G |-> G, trace |-> {}]

\* enabled_store with ftrace.
enabled_store_gradual(G, p, buf) ==
    LET b == kstrtobool(buf)
    IN  IF b.ret # OK THEN [ret |-> b.ret, G |-> G, trace |-> {}]
        ELSE IF G.patch[p].enabled = b.res
             THEN [ret |-> "EINVAL", G |-> G, trace |-> {}]
        ELSE IF p = G.klp_transition_patch
             THEN [ret |-> OK, G |-> klp_reverse_transition(G),
                   trace |-> {"klp_reverse_transition"}]
        ELSE IF ~b.res THEN disable_patch_gradual(G, p, {})
        ELSE [ret |-> "EINVAL", G |-> G, trace |-> {}]

\* klp_force_transition: every task is put on the target side and every
\* patch on the list is marked as forced.
klp_force_transition(G) ==
    [G EXCEPT !.task = [t \in Tasks |-> G.klp_target_state],
              !.forced = [p \in Patches |->
                              @[p] \/ klp_is_patch_registered(G, p)]]

\* force_store letting the trigger of any patch force the transition.
force_store_any(G, p, buf) ==
    LET b == kstrtobool(buf)
    IN  IF b.ret # OK THEN [ret |-> b.ret, G |-> G, trace |-> {}]
        ELSE IF ~b.res THEN [ret |-> OK, G |-> G, trace |-> {}]
        ELSE [ret |-> OK, G |-> klp_force_transition(G),
              trace |-> {"mutex_lock", "klp_force_transition"}]

\* force_store: a false value is done at once; a true value forces the
\* transition, under klp_mutex, when the patch is the one in transition.
force_store(G, p, buf) ==
    LET b == kstrtobool(buf)
    IN  IF b.ret # OK THEN [ret |-> b.ret, G |-> G, trace |-> {}]
        ELSE IF ~b.res THEN [ret |-> OK, G |-> G, trace |-> {}]
        ELSE IF p # G.klp_transition_patch
             THEN [ret |-> "EINVAL", G |-> G, trace |-> {"mutex_lock"}]
        ELSE [ret |-> OK, G |-> klp_force_transition(G),
              trace |-> {"mutex_lock", "klp_force_transition"}]

\* klp_patch_object and klp_unpatch_object for one object: the patched
\* flag of the object and of its functions set to v.
SetObjectPatched(obj, v) ==
    [obj EXCEPT !.patched = v,
                !.func_list = [j \in DOMAIN @ |-> [@[j] EXCEPT !.patched = v]]]

\* klp_free_object_loaded that leaves the old addresses of the functions.
klp_free_object_loaded_keep(obj) == [obj EXCEPT !.mod = NULL]

\* klp_free_object_loaded: the back-reference to the module and the
\* addresses that lie in it are forgotten.
klp_free_object_loaded(obj) ==
    [obj EXCEPT !.mod = NULL,
                !.func_list =
                    [j \in DOMAIN @ |->
                         [@[j] EXCEPT !.old_func = 0,
                                      !.new_func =
                                          IF obj.func_list[j].nop THEN 0
                                          ELSE @]]]

\* The index of the object of pt that names module m, or 0: the object
\* at which the loops over the objects of a patch break.
ObjectOf(pt, m) ==
    IF \E i \in DOMAIN pt.obj_list : pt.obj_list[i].name = m
    THEN CHOOSE i \in DOMAIN pt.obj_list :
             /\ pt.obj_list[i].name = m
             /\ \A j \in 1 .. (i - 1) : pt.obj_list[j].name # m
    ELSE 0

\* The body of klp_cleanup_module_patches_limited for one patch: its
\* object for module m is unpatched, the relocations are cleared and the
\* object forgets the module.
CleanupModulePatch(G, m, p) ==
    Let(ObjectOf(G.patch[p], m), LAMBDA o :
        IF o = 0 THEN G
        ELSE [G EXCEPT !.patch[p].obj_list[o] =
                           klp_free_object_loaded(SetObjectPatched(@, FALSE)),
                       !.relocs = @ \ {<<p, m>>}])

\* klp_cleanup_module_patches_limited that leaves the first patch of the
\* list as it is.
RECURSIVE klp_cleanup_module_patches_limited_late(_, _, _, _)
klp_cleanup_module_patches_limited_late(G, m, limit, k) ==
    IF k > Len(G.klp_patches) \/ G.klp_patches[k] = limit THEN G
    ELSE klp_cleanup_module_patches_limited_late(
             IF k = 1 THEN G ELSE CleanupModulePatch(G, m, G.klp_patches[k]),
             m, limit, k + 1)

\* klp_cleanup_module_patches_limited, from the k-th patch of the list
\* on: every patch up to limit (0: all of them) is cleaned of module m.
RECURSIVE klp_cleanup_module_patches_limited(_, _, _, _)
klp_cleanup_module_patches_limited(G, m, limit, k) ==
    IF k > Len(G.klp_patches) \/ G.klp_patches[k] = limit THEN G
    ELSE klp_cleanup_module_patches_limited(
             CleanupModulePatch(G, m, G.klp_patches[k]), m, limit, k + 1)

\* The steps at which applying a patch to a loading module can fail, and
\* what surrounds a call of klp_module_coming: the step and the patch.
ComingFailSteps ==
    {"none", "klp_init_object_loaded", "klp_pre_patch_callback",
     "klp_patch_object"}

ComingEnvs ==
    {[fail |-> "none", at |-> 1]}
        \cup [fail : ComingFailSteps \ {"none"}, at : Patches]

\* The body of the loop of klp_module_coming for patch p, whose object o
\* names the module.
ComingPatch(G, m, p, o, env) ==
    Let([G EXCEPT !.patch[p].obj_list[o].mod = m], LAMBDA G1 :
    Let(InitObjectLoadedGradual(
            G1, p, o, env.at = p /\ env.fail = "klp_init_object_loaded"),
        LAMBDA r :
        IF r.ret # OK THEN r
        ELSE IF env.at = p /\ env.fail = "klp_pre_patch_callback"
             THEN [ret |-> "EINVAL", G |-> r.G]
        ELSE IF env.at = p /\ env.fail = "klp_patch_object"
             THEN [ret |-> "EINVAL", G |-> r.G]
        ELSE [ret |-> OK,
              G |-> [r.G EXCEPT !.patch[p].obj_list[o] =
                                    SetObjectPatched(@, TRUE)]]))

\* The loop of klp_module_coming from the k-th patch of the list on, and
\* its error path: the module is not alive, the object that failed
\* forgets it and the patches before the one that failed are cleaned.
RECURSIVE ComingFrom(_, _, _, _)
ComingFrom(G, m, k, env) ==
    IF k > Len(G.klp_patches) THEN [ret |-> OK, G |-> G, trace |-> {}]
    ELSE
    Let(G.klp_patches[k], LAMBDA p :
    Let(ObjectOf(G.patch[p], m), LAMBDA o :
        IF o = 0 THEN ComingFrom(G, m, k + 1, env)
        ELSE
    Let(ComingPatch(G, m, p, o, env), LAMBDA r :
        IF r.ret = OK THEN ComingFrom(r.G, m, k + 1, env)
        ELSE [ret |-> r.ret,
              G |-> klp_cleanup_module_patches_limited(
                        [r.G EXCEPT !.klp_alive[m] = FALSE,
                                    !.patch[p].obj_list[o].mod = NULL],
                        m, p, 1),
              trace |-> {"klp_cleanup_module_patches_limited"}])))

\* klp_module_coming for a module in the state MODULE_STATE_COMING.
klp_module_coming(G, m, env) ==
    ComingFrom([G EXCEPT !.klp_alive[m] = TRUE], m, 1, env)

\* klp_module_going.
klp_module_going(G, m) ==
    klp_cleanup_module_patches_limited(
        [G EXCEPT !.klp_alive[m] = FALSE], m, 0, 1)

\* The descriptor of patch p in this variant: every patch replaces foo of
\* the base image and mfoo of module m1.
GradualDesc(p) ==
    D("klp", Arr(<< Vmlinux(<< FooFn(p) >>), O("m1", Arr(<< MFooFn(p) >>)) >>))

\* The modules that come and go: those a patch has an object for.
GradualModules ==
    {o.name : o \in UNION {{GradualDesc(p).objs.ent[i] :
                               i \in DOMAIN GradualDesc(p).objs.ent} :
                           p \in Patches}} \ {NULL}

InitGradual ==
    /\ config = [STACK |-> FALSE, PREEMPTION |-> FALSE]
    /\ Boot
    /\ resolver = NoQuery
    /\ SyncIdle
    /\ NoTransition
    /\ NoHeap
    /\ NoExercise

\* The init function of the module of patch p calls klp_enable_patch.
\* The module is loaded anew: its patch is gone and nothing holds it (the
\* module of a patch that was forced is never unloaded).
EnablePatch(p, env) ==
    /\ kobj[p].refs = 0
    /\ mod_refs.klp[PatchMod(p)] = 0
    /\ \E r \in {klp_enable_patch_gradual(Gradual, p, GradualDesc(p), env)} :
           /\ CommitGradual(r.G)
           /\ last' = [op |-> "klp_enable_patch", patch |-> p, buf |-> "",
                       ret |-> r.ret, trace |-> r.trace, frames |-> {}]
    /\ UNCHANGED <<config, heap, exercise,
                   klp_func_list, pd, cpu, ran, lookups, resolver,
                   klp_mutex, caller>>

\* The administrator writes buf to the "enabled" attribute of patch p,
\* which is there as long as the kobject of the patch is.
EnabledStoreGradual(p, buf) ==
    /\ kobj[p].refs > 0
    /\ \E r \in {enabled_store_gradual(Gradual, p, buf)} :
           /\ CommitGradual(r.G)
           /\ last' = [op |-> "enabled_store", patch |-> p, buf |-> buf,
                       ret |-> r.ret, trace |-> r.trace, frames |-> {}]
    /\ UNCHANGED <<config, heap, exercise,
                   klp_func_list, pd, cpu, ran, lookups, resolver,
                   klp_mutex, caller>>

\* klp_update_patch_state: a task that is on the other side crosses to
\* the target on its own.
UpdatePatchState(t) ==
    /\ klp_transition_patch # 0
    /\ task[t] # klp_target_state
    /\ task' = [task EXCEPT ![t] = klp_target_state]
    /\ UNCHANGED <<config, heap, exercise,
                   registry, last, pd, cpu, ran, lookups, resolver,
                   sync, klp_transition_patch, klp_target_state, transition,
                   forced, klp_alive, relocs>>

\* klp_transition_work_fn: klp_try_complete_transition once more.
TransitionWork ==
    /\ klp_transition_patch # 0
    /\ CommitGradual(klp_try_complete_transition(Gradual, {}))
    /\ UNCHANGED <<config, heap, exercise,
                   klp_func_list, last, pd, cpu, ran, lookups,
                   resolver, klp_mutex, caller>>

\* klp_free_patch_work_fn, scheduled by klp_free_patch_async:
\* klp_free_patch_finish drops the kobject of the patch and, unless the
\* patch was forced, the reference on its module.
FreePatchWork(p) ==
    /\ kobj[p].refs > 0
    /\ ~klp_is_patch_registered(Kernel, p)
    /\ kobj' = [kobj EXCEPT ![p] = kobject_put(@)]
    /\ mod_refs' = [mod_refs EXCEPT !.klp[PatchMod(p)] =
                                       IF forced[p] THEN @ ELSE @ - 1]
    /\ UNCHANGED <<config, heap, exercise,
                   klp_patches, patch, klp_func_list, last, pd, cpu,
                   ran, lookups, resolver, klp_mutex, caller, gradual>>

\* The administrator writes buf to the "force" attribute of patch p.
ForceStore(p, buf) ==
    /\ kobj[p].refs > 0
    /\ \E r \in {force_store(Gradual, p, buf)} :
           /\ CommitGradual(r.G)
           /\ last' = [op |-> "force_store", patch |-> p, buf |-> buf,
                       ret |-> r.ret, trace |-> r.trace, frames |-> {}]
    /\ UNCHANGED <<config, heap, exercise,
                   klp_func_list, pd, cpu, ran, lookups, resolver,
                   klp_mutex, caller>>

\* The module loader calls klp_module_coming for module m, which it is
\* loading; on an error the module is not loaded.
ModuleComing(m, env) ==
    /\ ~klp_alive[m]
    /\ \E r \in {klp_module_coming(Gradual, m, env)} :
           /\ CommitGradual(r.G)
           /\ last' = [op |-> "klp_module_coming", patch |-> 0, buf |-> m,
                       ret |-> r.ret, trace |-> r.trace, frames |-> {}]
    /\ UNCHANGED <<config, heap, exercise,
                   klp_func_list, pd, cpu, ran, lookups, resolver,
                   klp_mutex, caller>>

\* What a call of klp_module_going for module m finds to revert: an
\* object that is patched, relocations that are written.
Reverted(m) ==
    {"klp_unpatch_object" : p \in {q \in Patches :
         /\ klp_is_patch_registered(Gradual, q)
         /\ \E o \in DOMAIN patch[q].obj_list :
                patch[q].obj_list[o].name = m /\ patch[q].obj_list[o].patched}}
    \cup {"klp_clear_object_relocs" : p \in {q \in Patches :
               klp_is_patch_registered(Gradual, q) /\ <<q, m>> \in relocs}}

\* The module loader calls klp_module_going for module m, which is being
\* removed after klp_module_coming had accepted it.
ModuleGoing(m) ==
    /\ klp_alive[m]
    /\ CommitGradual(klp_module_going(Gradual, m))
    /\ last' = [op |-> "klp_module_going", patch |-> 0, buf |-> m,
                ret |-> OK,
                trace |-> {"klp_cleanup_module_patches_limited"}
                              \cup Reverted(m),
                frames |-> {}]
    /\ UNCHANGED <<config, heap, exercise,
                   klp_func_list, pd, cpu, ran, lookups, resolver,
                   klp_mutex, caller>>

NextGradual ==
    \/ \E p \in Patches, env \in GradualEnvs : EnablePatch(p, env)
    \/ \E p \in Patches, buf \in {"1", "0"} : EnabledStoreGradual(p, buf)
    \/ \E t \in Tasks : UpdatePatchState(t)
    \/ TransitionWork
    \/ \E p \in Patches : FreePatchWork(p)
    \/ \E p \in Patches, buf \in {"1", "0", "x"} : ForceStore(p, buf)
    \/ \E m \in GradualModules, env \in ComingEnvs : ModuleComing(m, env)
    \/ \E m \in GradualModules : ModuleGoing(m)

SpecGradual == InitGradual /\ [][NextGradual]_vars

-----------------------------------------------------------------------------
(* The Function-Site nodes as allocations                                  *)
(*                                                                         *)
(* Here func->func_node holds the identity of the allocation it points    *)
(* to, 0 for NULL, and a node that arch_klp_mem_free has released stays   *)
(* known as released, so that a handle that outlives its node shows.      *)

\* A second replacement of foo in the same patch.
FooAgain(p) == F("foo", 0, NewFunc(p, 2), FALSE, KLP_NORMAL_FORCE)

\* The descriptors of patch p: one function, two functions of two objects,
\* and two functions that resolve to the same old address.
SharedDescriptors(p) ==
    { D("klp", Arr(<< Vmlinux(<< FooFn(p) >>) >>)),
      D("klp", Arr(<< Vmlinux(<< FooFn(p) >>),
                      O("m1", Arr(<< MFooFn(p) >>)) >>)),
      D("klp", Arr(<< Vmlinux(<< FooFn(p), FooAgain(p) >>) >>)) }

\* The registry together with the allocations.
Memory == [klp_patches |-> klp_patches, patch |-> patch,
           mod_refs |-> mod_refs, heap |-> heap]

CommitMemory(M) ==
    /\ klp_patches' = M.klp_patches
    /\ patch' = M.patch
    /\ mod_refs' = M.mod_refs
    /\ heap' = M.heap

\* klp_find_func_node over the allocations: the node on klp_func_list
\* whose old_func is the one asked for, 0 when there is none.
FindFuncNode(M, old_func) ==
    LET found == {n \in Nodes :
                      /\ \E i \in DOMAIN M.heap.list : M.heap.list[i] = n
                      /\ M.heap.node[n].old_func = old_func}
    IN  IF found = {} THEN 0 ELSE CHOOSE n \in found : TRUE

\* func_node_alloc: the node klp_find_func_node finds for func->old_func,
\* or a new allocation, initialised and put at the head of klp_func_list;
\* NULL when the allocation or the snapshot of the old code fails.
FuncNodeAlloc(M, func, env) ==
    LET unused == {n \in Nodes : ~M.heap.node[n].live}
        n      == CHOOSE x \in unused : \A y \in unused : x <= y
    IN  IF FindFuncNode(M, func.old_func) # 0
        THEN [node |-> FindFuncNode(M, func.old_func), M |-> M]
        ELSE IF func.old_func \in env.alloc_fail
             THEN [node |-> 0, M |-> M]
        ELSE [node |-> n,
              M |-> [M EXCEPT
                       !.heap.node[n] = [live |-> TRUE,
                                         old_func |-> func.old_func,
                                         func_stack |-> << >>, frees |-> 0],
                       !.heap.list = << n >> \o @]]

\* func_node_free: clear the handle, test list_empty(&func_node->func_stack)
\* and, when it is empty, klp_del_func_node, synchronize_rcu and
\* arch_klp_mem_free.  The test of a node that was already released reads
\* released memory: it is recorded, and its outcome is either one (empty).
FuncNodeFree(M, p, r, empty) ==
    LET func == FuncOf(M, p, r)
        n    == func.func_node
        live == M.heap.node[n].live
        M1   == [M EXCEPT
                   !.patch[p].obj_list[r[1]].func_list[r[2]].func_node = 0,
                   !.heap.stale = @ \/ ~live]
    IN  IF n = 0 THEN M
        ELSE IF (IF live THEN M.heap.node[n].func_stack = << >> ELSE empty)
             THEN [M1 EXCEPT
                     !.heap.list = SelectSeq(@, LAMBDA x : x # n),
                     !.heap.node[n].live = FALSE,
                     !.heap.node[n].frees = IF @ < 2 THEN @ + 1 ELSE @]
        ELSE M1

\* klp_mem_recycle: func_node_free for every function of the patch.
RECURSIVE MemRecycleNodes(_, _, _, _, _)
MemRecycleNodes(M, p, refs, i, empty) ==
    IF i > Len(refs) THEN M
    ELSE MemRecycleNodes(FuncNodeFree(M, p, refs[i], empty), p, refs, i + 1,
                         empty)

MemRecycle(M, p, empty) ==
    MemRecycleNodes(M, p, FuncRefs(M.patch[p]), 1, empty)

\* klp_mem_prepare: a node for every function of the patch; the first
\* function without one has the whole patch recycled.
RECURSIVE MemPrepareNodes(_, _, _, _, _, _)
MemPrepareNodes(M, p, refs, i, env, empty) ==
    IF i > Len(refs) THEN [ret |-> OK, M |-> M]
    ELSE LET a  == FuncNodeAlloc(M, FuncOf(M, p, refs[i]), env)
             M1 == [a.M EXCEPT
                      !.patch[p].obj_list[refs[i][1]].func_list[refs[i][2]]
                          .func_node = a.node]
         IN  IF a.node = 0
             THEN [ret |-> "ENOMEM", M |-> MemRecycle(M1, p, empty)]
             ELSE MemPrepareNodes(M1, p, refs, i + 1, env, empty)

MemPrepare(M, p, env, empty) ==
    MemPrepareNodes(M, p, FuncRefs(M.patch[p]), 1, env, empty)

\* klp_unpatch_objects: every patched function leaves the stack of its
\* node.
RECURSIVE UnpatchNodes(_, _, _, _)
UnpatchNodes(M, p, refs, i) ==
    IF i > Len(refs) THEN M
    ELSE LET r    == refs[i]
             func == FuncOf(M, p, r)
         IN  IF ~func.patched \/ func.func_node = 0
             THEN UnpatchNodes(M, p, refs, i + 1)
             ELSE UnpatchNodes(
                      [M EXCEPT
                         !.patch[p].obj_list[r[1]].func_list[r[2]].patched
                             = FALSE,
                         !.heap.node[func.func_node].func_stack =
                             SelectSeq(@, LAMBDA e : e # <<p, r[1], r[2]>>)],
                      p, refs, i + 1)

\* disable_patch: unpatch the objects, drop the reference on the patch
\* module and clear patch->enabled.
DisableNodes(M, p) ==
    Let(UnpatchNodes(M, p, FuncRefs(M.patch[p]), 1),
        LAMBDA U :
            [U EXCEPT
               !.patch[p].obj_list =
                   [o \in DOMAIN @ |-> [@[o] EXCEPT !.patched = FALSE]],
               !.patch[p].enabled = FALSE,
               !.mod_refs.klp[PatchMod(p)] = @ - 1])

\* enable_patch from its klp_patch_object loop on: every function is put
\* on top of the stack of its node; the first one whose rewriting fails
\* has the patch disabled again.
RECURSIVE PatchNodes(_, _, _, _, _)
PatchNodes(M, p, refs, i, env) ==
    IF i > Len(refs)
    THEN [ret |-> OK,
          M |-> [M EXCEPT
                   !.patch[p].obj_list =
                       [o \in DOMAIN @ |-> [@[o] EXCEPT !.patched = TRUE]]]]
    ELSE LET r    == refs[i]
             func == FuncOf(M, p, r)
         IN  IF func.old_func \in env.patch_fail
             THEN [ret |-> "EINVAL", M |-> DisableNodes(M, p)]
             ELSE PatchNodes(
                      [M EXCEPT
                         !.patch[p].obj_list[r[1]].func_list[r[2]].patched
                             = TRUE,
                         !.heap.node[func.func_node].func_stack =
                             << <<p, r[1], r[2]>> >> \o @],
                      p, refs, i + 1, env)

\* __klp_enable_patch: the stacking rule, klp_mem_prepare, the rendezvous
\* that runs enable_patch, and klp_mem_recycle when that fails.
EnableNodes(M, p, env, empty) ==
    IF config.STACK /\ ~EnableStackOk(M, p) THEN [ret |-> "EBUSY", M |-> M]
    ELSE Let(MemPrepare(M, p, env, empty), LAMBDA a :
         IF a.ret # OK THEN a
         ELSE Let(PatchNodes([a.M EXCEPT
                                !.patch[p].enabled = TRUE,
                                !.mod_refs.klp[PatchMod(p)] = @ + 1],
                             p, FuncRefs(M.patch[p]), 1, env),
                  LAMBDA b :
                      IF b.ret # OK
                      THEN [ret |-> b.ret, M |-> MemRecycle(b.M, p, empty)]
                      ELSE b))

\* __klp_disable_patch: the stacking rule, the rendezvous that runs
\* disable_patch, and klp_mem_recycle.
DisableRecycle(M, p, empty) ==
    IF config.STACK /\ ~DisableStackOk(M, p) THEN [ret |-> "EBUSY", M |-> M]
    ELSE [ret |-> OK, M |-> MemRecycle(DisableNodes(M, p), p, empty)]

\* enabled_store.
StoreNodes(M, p, buf, env, empty) ==
    LET b == kstrtobool(buf)
    IN  IF b.ret # OK THEN [ret |-> b.ret, M |-> M]
        ELSE IF ~klp_is_patch_registered(M, p)
             THEN [ret |-> "EINVAL", M |-> M]
        ELSE IF M.patch[p].enabled = b.res THEN [ret |-> "EINVAL", M |-> M]
        ELSE IF b.res THEN EnableNodes(M, p, env, empty)
        ELSE DisableRecycle(M, p, empty)

\* The faults of one request that bear on the nodes.
NodeEnvs ==
    {NoFault}
        \cup {[NoFault EXCEPT !.alloc_fail = {a}] : a \in OldFuncs}
        \cup {[NoFault EXCEPT !.patch_fail = {a}] : a \in OldFuncs}

\* Registration of a patch of any of the shapes.
RegisterShared ==
    \E p \in Patches : \E d \in SharedDescriptors(p) :
        Register(p, d, NoRegFault)

\* A write to the "enabled" attribute of patch p.
EnabledStoreNodes(p, buf, env, empty) ==
    \E r \in {StoreNodes(Memory, p, buf, env, empty)} :
        /\ CommitMemory(r.M)
        /\ last' = [op |-> "enabled_store", patch |-> p, buf |-> buf,
                    ret |-> r.ret, trace |-> {}, frames |-> {}]
        /\ UNCHANGED <<config, klp_func_list, pd, cpu, ran, lookups,
                       resolver, sync, gradual, exercise>>

StoreAnyNodes ==
    \E p \in Patches, buf \in {"1", "0"}, env \in NodeEnvs, e \in BOOLEAN :
        EnabledStoreNodes(p, buf, env, e)

NextNodes == RegisterShared \/ StoreAnyNodes \/ UnregisterAny

SpecNodes == Init /\ [][NextNodes]_vars

-----------------------------------------------------------------------------
(* The strict-alternation exercise (beginner/2/alternation_test.c)         *)
(*                                                                         *)
(* The parent is process 1 and the child process 2.  turn points into     *)
(* shared memory and is a plain int, so the wait loop is compiled either  *)
(* to load *turn on every round (gcc -O0) or to load it once and then spin *)
(* on the register, which also receives the process's own store (gcc -O1  *)
(* and above); both builds are behaviours of the program.                 *)

\* Upper bound on the lines written to testfile.txt.
MaxWrites == 4

\* The value main stores into *turn before fork.
FirstTurn == 2

Processes == {1, 2}

\* The number the other process goes by.
Other(i) == IF i = 1 THEN 2 ELSE 1

\* The test of the wait loop taken as passed whatever was read.
Passes_any(i, value) == TRUE

\* The test that ends the wait loop of process i: while (*turn != i) ;
Passes(i, value) == value = i

\* After fork: *turn is FirstTurn, both processes are at the top of their
\* while (running) loop, nothing is written, and the program is one of
\* the two builds.
InitAlternation ==
    /\ turn = FirstTurn
    /\ \E h \in BOOLEAN :
           proc = [i \in Processes |->
                       [pc |-> "while", reg |-> 0, running |-> TRUE,
                        hoisted |-> h]]
    /\ file = << >>

InitExercise ==
    /\ config = [STACK |-> TRUE, PREEMPTION |-> FALSE]
    /\ Boot
    /\ resolver = NoQuery
    /\ SyncIdle
    /\ NoTransition
    /\ NoHeap
    /\ InitAlternation

\* What a step of the exercise leaves alone.
Elsewhere ==
    UNCHANGED <<config, registry, last, pd, cpu, ran, lookups, resolver,
                sync, gradual, heap>>

\* while (running): leave the loop once the handler has cleared running,
\* else go and wait; the build that keeps *turn in a register loads it
\* before its first wait only.
LoopTest(i) ==
    /\ proc[i].pc = "while"
    /\ proc' = [proc EXCEPT ![i].pc =
                   IF ~proc[i].running THEN "exit"
                   ELSE IF proc[i].hoisted /\ proc[i].reg # 0 THEN "spin"
                   ELSE "load"]
    /\ UNCHANGED <<turn, file>>
    /\ Elsewhere

\* The load of *turn.
Load(i) ==
    /\ proc[i].pc = "load"
    /\ proc' = [proc EXCEPT ![i].pc = "spin", ![i].reg = turn]
    /\ UNCHANGED <<turn, file>>
    /\ Elsewhere

\* The wait loop ends and the process is in its critical section.
Enter(i) ==
    /\ proc[i].pc = "spin"
    /\ Passes(i, proc[i].reg)
    /\ proc' = [proc EXCEPT ![i].pc = "cs"]
    /\ UNCHANGED <<turn, file>>
    /\ Elsewhere

\* Another round of the wait loop; the build that spins on the register
\* has no way out of it.
Retry(i) ==
    /\ proc[i].pc = "spin"
    /\ ~Passes(i, proc[i].reg)
    /\ ~proc[i].hoisted
    /\ proc' = [proc EXCEPT ![i].pc = "load"]
    /\ UNCHANGED <<turn, file>>
    /\ Elsewhere

\* write_file: the line of process i is appended to testfile.txt.
WriteFile(i) ==
    /\ proc[i].pc = "cs"
    /\ Len(file) < MaxWrites
    /\ file' = Append(file, i)
    /\ proc' = [proc EXCEPT ![i].pc = "store"]
    /\ UNCHANGED turn
    /\ Elsewhere

\* write_file: open, write or close fails and the process exits where it
\* is.
Fail(i) ==
    /\ proc[i].pc = "cs"
    /\ proc' = [proc EXCEPT ![i].pc = "exit"]
    /\ UNCHANGED <<turn, file>>
    /\ Elsewhere

\* *turn = the other process; the build that spins on the register keeps
\* the stored value there.
Leave(i) ==
    /\ proc[i].pc = "store"
    /\ turn' = Other(i)
    /\ proc' = [proc EXCEPT ![i].pc = "while",
                            ![i].reg = IF proc[i].hoisted THEN Other(i)
                                       ELSE @]
    /\ UNCHANGED file
    /\ Elsewhere

\* SIGINT reaches process i: signal_handler clears its running.
Signal(i) ==
    /\ proc[i].pc # "exit"
    /\ proc[i].running
    /\ proc' = [proc EXCEPT ![i].running = FALSE]
    /\ UNCHANGED <<turn, file>>
    /\ Elsewhere

NextExercise ==
    \E i \in Processes :
        \/ LoopTest(i)
        \/ Load(i)
        \/ Enter(i)
        \/ Retry(i)
        \/ WriteFile(i)
        \/ Fail(i)
        \/ Leave(i)
        \/ Signal(i)

SpecExercise == InitExercise /\ [][NextExercise]_vars

-----------------------------------------------------------------------------
(* Properties                                                              *)

\* C1: End to end, for a well-formed patch whose symbols resolve uniquely
\* and with no fault and no activeness conflict: registering an
\* unregistered patch succeeds and leaves it registered and disabled;
\* enabling it then succeeds and sets enabled and every patched flag;
\* disabling it succeeds and clears them; unregistering it succeeds and
\* takes it off klp_patches, after which a write to its attribute and
\* another unregistration both fail.
C1_Step(p) ==
    /\ (Called("register", p) /\ ~Registered(p)
            /\ Register(p, ValidDesc(p), NoRegFault))
           => /\ last'.ret = OK
              /\ Registered(p)' /\ ~patch'[p].enabled /\ NonePatched(p)'
              /\ NFuncs(p)' >= 1
    /\ (Stored(p, "1") /\ Registered(p) /\ ~patch[p].enabled
            /\ MayEnable(p) /\ EnabledStore(p, "1", NoFault))
           => /\ last'.ret = OK
              /\ Registered(p)' /\ patch'[p].enabled /\ AllPatched(p)'
    /\ (Stored(p, "0") /\ Registered(p) /\ patch[p].enabled
            /\ MayDisable(p) /\ EnabledStore(p, "0", NoFault))
           => /\ last'.ret = OK
              /\ Registered(p)' /\ ~patch'[p].enabled /\ NonePatched(p)'
    /\ (Called("unregister", p) /\ Registered(p) /\ ~patch[p].enabled)
           => /\ last'.ret = OK
              /\ ~Registered(p)'
              /\ \A buf \in {"1", "0"} :
                     enabled_store(Kernel, p, buf, NoFault)'.ret # OK
              /\ klp_unregister_patch(Kernel, p)'.ret # OK

C1_EndToEnd == [][\A p \in Patches : C1_Step(p)]_vars

\* C1 witness: a patch that went through registration and enabling has
\* just been disabled.
C1_Witness ==
    /\ last.op = "enabled_store" /\ last.buf = "0" /\ last.ret = OK
    /\ Registered(last.patch) /\ ~patch[last.patch].enabled
    /\ NonePatched(last.patch) /\ NFuncs(last.patch) >= 1

\* The edges of the life cycle of a patch.
LegalEdges ==
    { <<"Unregistered", "Disabled">>, <<"Disabled", "Enabled">>,
      <<"Enabled", "Disabled">>, <<"Disabled", "Unregistered">> }

\* The call just made asks for an edge the life cycle does not have.
IllegalCall(p) ==
    \/ Called("register", p) /\ Registered(p)
    \/ Called("enabled_store", p) /\ ~Registered(p)
    \/ Stored(p, "1") /\ patch[p].enabled
    \/ Stored(p, "0") /\ ~patch[p].enabled
    \/ Called("unregister", p) /\ (~Registered(p) \/ patch[p].enabled)

\* C2: Over any sequence of register, enable, disable and unregister
\* calls every patch moves only along Unregistered -> Disabled,
\* Disabled <-> Enabled and Disabled -> Unregistered, only the patch the
\* call names moves, and a call that asks for any other edge returns an
\* error and leaves klp_patches and every enabled and patched flag as they
\* were.
C2_StateMachine ==
    [][\A p \in Patches :
          /\ PState(p)' # PState(p)
                 => /\ <<PState(p), PState(p)'>> \in LegalEdges
                    /\ last'.patch = p /\ last'.ret = OK
          /\ IllegalCall(p)
                 => /\ last'.ret # OK
                    /\ UNCHANGED <<klp_patches, patch>>]_vars

\* C2 witness: an enabled patch was asked to unregister and was refused.
C2_Witness ==
    /\ last.op = "unregister" /\ last.ret = "EBUSY"
    /\ Registered(last.patch) /\ patch[last.patch].enabled
    /\ AllPatched(last.patch)

\* C3: Writing 1 to the attribute of a patch that is already enabled
\* returns an error and leaves every patched flag of every patch, and the
\* Function-Site table, unchanged.
C3_DoubleEnable ==
    [][\A p \in Patches :
          (Stored(p, "1") /\ Registered(p) /\ patch[p].enabled)
              => /\ last'.ret # OK
                 /\ UNCHANGED <<patch, klp_func_list>>]_vars

\* C3 witness: 1 was written for an enabled, patched patch and refused.
C3_Witness ==
    /\ last.op = "enabled_store" /\ last.buf = "1" /\ last.ret = "EINVAL"
    /\ Registered(last.patch) /\ patch[last.patch].enabled
    /\ AllPatched(last.patch) /\ klp_func_list # << >>

\* C4: Writing 0 to the attribute of a patch that is registered but not
\* enabled, or that is not on klp_patches, returns an error, unpatches
\* nothing and changes no flag.
C4_DisableNotEnabled ==
    [][\A p \in Patches :
          (Stored(p, "0") /\ (~Registered(p) \/ ~patch[p].enabled))
              => /\ last'.ret # OK
                 /\ "disable_patch" \notin last'.trace
                 /\ UNCHANGED <<klp_patches, patch, klp_func_list,
                                mod_refs>>]_vars

\* C4 witness: 0 was written for a patch that is not registered while
\* another patch is enabled and patched.
C4_Witness ==
    /\ last.op = "enabled_store" /\ last.buf = "0" /\ last.ret = "EINVAL"
    /\ ~Registered(last.patch)
    /\ \E q \in Patches : Registered(q) /\ patch[q].enabled /\ AllPatched(q)

\* Patch p is the last enabled patch in klp_patches order.
LastEnabled(p) ==
    /\ Registered(p) /\ patch[p].enabled
    /\ \A j \in DOMAIN klp_patches :
           j > ListPos(klp_patches, p) => ~patch[klp_patches[j]].enabled

\* Patch p is the first disabled patch in klp_patches order.
FirstDisabled(p) ==
    /\ Registered(p) /\ ~patch[p].enabled
    /\ \A j \in DOMAIN klp_patches :
           j < ListPos(klp_patches, p) => patch[klp_patches[j]].enabled

\* C5: With stacking enforced, disabling an enabled patch that is followed
\* by an enabled patch fails and leaves every patch enabled and patched as
\* it was; a disable succeeds only for the last enabled patch of
\* klp_patches; and with no fault the last enabled patch is disabled, so
\* that P2 and then P1 can be disabled in that order.
C5_DisableStacking ==
    [][config.STACK =>
          \A p \in Patches :
              /\ (Stored(p, "0") /\ Registered(p) /\ patch[p].enabled
                      /\ ~LastEnabled(p))
                     => /\ last'.ret = "EBUSY"
                        /\ UNCHANGED <<klp_patches, patch, klp_func_list>>
              /\ (Stored(p, "0") /\ last'.ret = OK) => LastEnabled(p)
              /\ (Stored(p, "0") /\ LastEnabled(p)
                      /\ EnabledStore(p, "0", NoFault))
                     => /\ last'.ret = OK
                        /\ ~patch'[p].enabled /\ NonePatched(p)']_vars

\* C5 witness: with stacking enforced and two patches enabled, disabling
\* the first one was refused.
C5_Witness ==
    /\ config.STACK
    /\ last.op = "enabled_store" /\ last.buf = "0" /\ last.ret = "EBUSY"
    /\ Len(klp_patches) >= 2 /\ last.patch = klp_patches[1]
    /\ \A i \in 1 .. 2 : patch[klp_patches[i]].enabled
                             /\ AllPatched(klp_patches[i])

\* C6: With stacking enforced, an enable succeeds only for the first
\* disabled patch of klp_patches; for any other disabled patch the request
\* is refused before a Function-Site node is allocated and before the
\* rendezvous is entered.
C6_EnableStacking ==
    [][config.STACK =>
          \A p \in Patches :
              /\ (Stored(p, "1") /\ last'.ret = OK) => FirstDisabled(p)
              /\ (Stored(p, "1") /\ Registered(p) /\ ~patch[p].enabled
                      /\ ~FirstDisabled(p))
                     => /\ last'.ret = "EBUSY"
                        /\ last'.trace = {}
                        /\ UNCHANGED <<klp_patches, patch, klp_func_list,
                                       mod_refs>>]_vars

\* C6 witness: with stacking enforced, enabling the second of two disabled
\* patches was refused.
C6_Witness ==
    /\ config.STACK
    /\ last.op = "enabled_store" /\ last.buf = "1" /\ last.ret = "EBUSY"
    /\ Len(klp_patches) >= 2 /\ last.patch = klp_patches[2]
    /\ ~patch[klp_patches[1]].enabled /\ ~patch[klp_patches[2]].enabled

\* Number of objects of patch p that hold a reference on module m.
ObjRefs(p, m) ==
    Cardinality({o \in DOMAIN patch[p].obj_list :
                     patch[p].obj_list[o].mod = m})

\* C7: Unregistering an enabled patch is refused and the patch stays on
\* klp_patches, enabled and patched; unregistering a registered disabled
\* patch takes it off klp_patches, empties its object and function lists
\* and puts every reference it held on a target module.
C7_Unregister ==
    [][\A p \in Patches :
          /\ (Called("unregister", p) /\ Registered(p) /\ patch[p].enabled)
                 => /\ last'.ret # OK
                    /\ UNCHANGED <<klp_patches, patch, klp_func_list,
                                   mod_refs>>
          /\ (Called("unregister", p) /\ Registered(p) /\ ~patch[p].enabled)
                 => /\ last'.ret = OK
                    /\ klp_patches' = ListDel(klp_patches, p)
                    /\ patch'[p].obj_list = << >>
                    /\ \A m \in TargetModules :
                           mod_refs'.target[m]
                               = mod_refs.target[m] - ObjRefs(p, m)
                    /\ \A q \in Patches \ {p} : patch'[q] = patch[q]]_vars

\* C7 witness: a patch that held a reference on a target module has been
\* unregistered and the module has no reference left.
C7_Witness ==
    /\ last.op = "unregister" /\ last.ret = OK
    /\ ~Registered(last.patch) /\ patch[last.patch].obj_list = << >>
    /\ last.patch % 2 = 0
    /\ \A m \in TargetModules : mod_refs.target[m] = 0

\* klp_patches holds no patch twice.
NoDuplicate ==
    \A i, j \in DOMAIN klp_patches :
        klp_patches[i] = klp_patches[j] => i = j

\* C8: Registering a patch that is already on klp_patches returns an error
\* and initialises nothing: its enabled flag, its patched flags, its
\* lists and klp_patches are unchanged, and klp_patches never holds a
\* patch twice.
C8_DuplicateRegister ==
    /\ []NoDuplicate
    /\ [][\A p \in Patches :
              (Called("register", p) /\ Registered(p))
                  => /\ last'.ret # OK
                     /\ UNCHANGED <<klp_patches, patch, klp_func_list,
                                    mod_refs>>]_vars

\* C8 witness: an enabled patch was registered again and refused.
C8_Witness ==
    /\ last.op = "register" /\ last.ret = "EINVAL"
    /\ Registered(last.patch) /\ patch[last.patch].enabled
    /\ AllPatched(last.patch)

\* The descriptor breaks a shape rule: no module, a module that is no
\* livepatch module, fewer than one object, an object with fewer than one
\* function, or a function with no old name.
ShapeViolation(d) ==
    \/ d.mod = NULL
    \/ d.mod # "klp"
    \/ d.objs.null
    \/ Len(d.objs.ent) < 1
    \/ \E i \in DOMAIN d.objs.ent :
           \/ d.objs.ent[i].funcs.null
           \/ Len(d.objs.ent[i].funcs.ent) < 1
           \/ \E j \in DOMAIN d.objs.ent[i].funcs.ent :
                  d.objs.ent[i].funcs.ent[j].old_name = NULL

\* C9: klp_register_patch refuses every descriptor that breaks a shape
\* rule (no module, not a livepatch module, fewer than one object, an
\* object with fewer than one function, a function with no old name): it
\* returns an error and adds nothing to klp_patches.
C9_ShapeRefused ==
    [][\A p \in Patches : \A d \in Descriptors(p) :
          (Called("register", p) /\ ShapeViolation(d)
               /\ Register(p, d, NoRegFault))
              => /\ last'.ret # OK
                 /\ UNCHANGED klp_patches]_vars

\* The descriptor of patch p whose one function carries the nop marker and
\* no new function; its symbol foo resolves uniquely.
NopDescriptor(p) ==
    D("klp", Arr(<< Vmlinux(<< F("foo", 0, 0, TRUE, KLP_NORMAL_FORCE) >>) >>))

\* C10: Registering an unregistered patch whose function carries the nop
\* marker and no new function, all else valid and the symbol resolvable,
\* succeeds and leaves the patch registered and disabled.
C10_NopAccepted ==
    [][\A p \in Patches :
          (Called("register", p) /\ ~Registered(p)
               /\ Register(p, NopDescriptor(p), NoRegFault))
              => /\ last'.ret = OK
                 /\ Registered(p)' /\ ~patch'[p].enabled]_vars

\* C11: If klp_register_patch of an unregistered patch fails, at whatever
\* step (shape, object initialisation, symbol resolution, size lookup,
\* jump-label or static-call registration, address conflict), then on
\* return the patch is not on klp_patches, its object list is empty, every
\* module reference count is what it was before the call (each reference
\* taken was put exactly once), and no other patch has changed.
C11_RegisterCleanup ==
    [][\A p \in Patches :
          (Called("register", p) /\ ~Registered(p) /\ last'.ret # OK)
              => /\ ~Registered(p)'
                 /\ klp_patches' = klp_patches
                 /\ patch'[p].obj_list = << >>
                 /\ ~patch'[p].enabled
                 /\ mod_refs' = mod_refs
                 /\ klp_func_list' = klp_func_list
                 /\ \A q \in Patches \ {p} : patch'[q] = patch[q]]_vars

\* C11 witness: a registration took a reference on module m1 for its first
\* object, failed on its second object (module not loaded) and m1 is left
\* with the one reference another registered patch holds.
C11_Witness ==
    /\ last.op = "register" /\ last.ret = "ENOPKG"
    /\ ~Registered(last.patch) /\ patch[last.patch].obj_list = << >>
    /\ mod_refs.target["m1"] = 1
    /\ \E q \in Patches : Registered(q) /\ ObjRefs(q, "m1") = 1

\* C12: Whenever a write of 1 for a registered, disabled patch fails, for
\* whatever reason (stacking rule, node allocation, kprobe, activeness,
\* module reference, arch_klp_patch_func failing on some function after
\* others were patched), on return the patch is not enabled, none of its
\* objects and functions is patched or holds a node, and the flags of
\* every other patch are unchanged.
C12_EnableRollback ==
    [][\A p \in Patches :
          (Stored(p, "1") /\ Registered(p) /\ ~patch[p].enabled
               /\ last'.ret # OK)
              => /\ ~patch'[p].enabled
                 /\ NonePatched(p)'
                 /\ \A q \in Patches \ {p} : patch'[q] = patch[q]]_vars

\* C12 witness: enable_patch ran for a patch of two objects and failed in
\* arch_klp_patch_func, and the patch is left disabled and unpatched.
C12_Witness ==
    /\ last.op = "enabled_store" /\ last.buf = "1" /\ last.ret = "EINVAL"
    /\ "enable_patch" \in last.trace
    /\ Len(patch[last.patch].obj_list) = 2
    /\ ~patch[last.patch].enabled /\ NonePatched(last.patch)

\* The functions of patch p.
FuncsOf(p) ==
    {FuncOf(Kernel, p, FuncRefs(patch[p])[i]) :
         i \in DOMAIN FuncRefs(patch[p])}

\* Address a lies in [lo, lo + size).
InRange(a, lo, size) == a >= lo /\ a < lo + size

\* The function on top of the stack of the node of address old_func; the
\* condition tells whether there is one.
HasActive(old_func) ==
    /\ klp_find_func_node(klp_func_list, old_func) # 0
    /\ FuncStack(Kernel, old_func) # << >>

ActiveTop(old_func) ==
    FuncOf(Kernel, FuncStack(Kernel, old_func)[1][1],
           <<FuncStack(Kernel, old_func)[1][2],
             FuncStack(Kernel, old_func)[1][3]>>)

\* Address a lies in the code that is active for function f now: the old
\* function when no enabled patch replaces it, the replacement on top of
\* its node's stack otherwise; only the first KLP_MAX_REPLACE_SIZE bytes
\* of it count when f carries KLP_STACK_OPTIMIZE.
InActiveRange(a, f) ==
    LET lo   == IF HasActive(f.old_func)
                THEN ActiveTop(f.old_func).new_func ELSE f.old_func
        size == IF HasActive(f.old_func)
                THEN ActiveTop(f.old_func).new_size ELSE f.old_size
    IN  InRange(a, lo,
                IF f.force = KLP_STACK_OPTIMIZE /\ size > KLP_MAX_REPLACE_SIZE
                THEN KLP_MAX_REPLACE_SIZE ELSE size)

\* What C13 concludes of a refused enable of patch p.
EnableRefusedByActiveness(p) ==
    /\ last'.ret # OK
    /\ MayEnable(p) => last'.ret = "EAGAIN"
    /\ "enable_patch" \notin last'.trace
    /\ ~patch'[p].enabled /\ NonePatched(p)'
    /\ klp_func_list' = klp_func_list
    /\ \A q \in Patches \ {p} : patch'[q] = patch[q]

\* C13 as stated: if a stack holds a frame inside [old_func, old_func +
\* old_size) of an unforced function of the disabled patch being enabled,
\* the enable fails with the activeness error (when the stacking rule lets
\* the request through), arch_klp_patch_func is never called, the patch
\* stays disabled and unpatched and the node table is what it was.
C13_FrameInOldRange ==
    [][\A p \in Patches : \A env \in ActEnvs :
          (Stored(p, "1") /\ Registered(p) /\ ~patch[p].enabled
               /\ (\E a \in env.frames : \E f \in FuncsOf(p) :
                       /\ f.force # KLP_ENFORCEMENT
                       /\ InRange(a, f.old_func, f.old_size))
               /\ EnabledStore(p, "1", env))
              => EnableRefusedByActiveness(p)]_vars

\* C13 amended: the same, for a frame inside the code that is active for
\* an unforced function of the patch: the old function when no enabled
\* patch replaces it yet, else the replacement on top of its node's stack,
\* and only the first KLP_MAX_REPLACE_SIZE bytes under KLP_STACK_OPTIMIZE.
C13_ActivenessEnable ==
    [][\A p \in Patches : \A env \in ActEnvs :
          (Stored(p, "1") /\ Registered(p) /\ ~patch[p].enabled
               /\ (\E a \in env.frames : \E f \in FuncsOf(p) :
                       /\ f.force # KLP_ENFORCEMENT
                       /\ InActiveRange(a, f))
               /\ EnabledStore(p, "1", env))
              => EnableRefusedByActiveness(p)]_vars

\* C13 witness: an enable was refused by the activeness check while
\* another patch is enabled and patched, and the refused patch is left
\* disabled, unpatched and without nodes.
C13_Witness ==
    /\ last.op = "enabled_store" /\ last.buf = "1" /\ last.ret = "EAGAIN"
    /\ "klp_check_calltrace" \in last.trace
    /\ "enable_patch" \notin last.trace
    /\ Registered(last.patch) /\ ~patch[last.patch].enabled
    /\ NonePatched(last.patch)
    /\ \E q \in Patches : Registered(q) /\ patch[q].enabled /\ AllPatched(q)

\* Address a lies in a range of function f: its old function or, when an
\* enabled patch replaces it, the replacement on top of its node's stack.
InSomeRange(a, f) ==
    \/ InRange(a, f.old_func, f.old_size)
    \/ /\ HasActive(f.old_func)
       /\ InRange(a, ActiveTop(f.old_func).new_func,
                  ActiveTop(f.old_func).new_size)

\* C14: when the stacks hold a frame inside a range of some function of
\* the patch and every function whose range holds a frame is marked
\* KLP_ENFORCEMENT, an enable the stacking rule admits is not aborted: it
\* returns 0, enable_patch runs and every function of the patch is patched.
C14_ForcedEnable ==
    [][\A p \in Patches : \A env \in ActEnvs :
          (Stored(p, "1") /\ Registered(p) /\ ~patch[p].enabled
               /\ MayEnable(p)
               /\ (\E f \in FuncsOf(p) : \E a \in env.frames :
                       InSomeRange(a, f))
               /\ (\A f \in FuncsOf(p) :
                       (\E a \in env.frames : InSomeRange(a, f))
                           => f.force = KLP_ENFORCEMENT)
               /\ EnabledStore(p, "1", env))
              => /\ last'.ret = OK
                 /\ "enable_patch" \in last'.trace
                 /\ patch'[p].enabled /\ AllPatched(p)']_vars

\* C14 witness: an enable succeeded although the stacks held a frame inside
\* the old function of a KLP_ENFORCEMENT function of the patch, and the
\* patch has another function that is not forced.
C14_Witness ==
    /\ last.op = "enabled_store" /\ last.buf = "1" /\ last.ret = OK
    /\ Registered(last.patch) /\ patch[last.patch].enabled
    /\ AllPatched(last.patch)
    /\ \E f \in FuncsOf(last.patch) : \E a \in last.frames :
           f.force = KLP_ENFORCEMENT /\ InRange(a, f.old_func, f.old_size)
    /\ \E f \in FuncsOf(last.patch) : f.force # KLP_ENFORCEMENT

\* C15: if the stacks hold a frame inside [new_func, new_func + new_size)
\* of a function of the enabled patch being disabled, the disable fails
\* (with the activeness error when the stacking rule lets the request
\* through), disable_patch does not run, no function is unpatched, the
\* patch stays enabled, its module reference is kept and no node leaves
\* the table.
C15_ActivenessDisable ==
    [][\A p \in Patches : \A env \in ActEnvs :
          (Stored(p, "0") /\ Registered(p) /\ patch[p].enabled
               /\ (\E f \in FuncsOf(p) : \E a \in env.frames :
                       InRange(a, f.new_func, f.new_size))
               /\ EnabledStore(p, "0", env))
              => /\ last'.ret # OK
                 /\ MayDisable(p) => last'.ret = "EAGAIN"
                 /\ "disable_patch" \notin last'.trace
                 /\ patch'[p].enabled /\ AllPatched(p)'
                 /\ patch' = patch
                 /\ mod_refs' = mod_refs
                 /\ klp_func_list' = klp_func_list
                 /\ klp_patches' = klp_patches]_vars

\* C15 witness: a disable was refused by the activeness check because of a
\* frame inside a replacement function of the patch, which is still
\* enabled, patched and pinned.
C15_Witness ==
    /\ last.op = "enabled_store" /\ last.buf = "0" /\ last.ret = "EAGAIN"
    /\ "klp_check_calltrace" \in last.trace
    /\ "disable_patch" \notin last.trace
    /\ Registered(last.patch) /\ patch[last.patch].enabled
    /\ AllPatched(last.patch)
    /\ mod_refs.klp[PatchMod(last.patch)] = 1
    /\ \E f \in FuncsOf(last.patch) : \E a \in last.frames :
           InRange(a, f.new_func, f.new_size)

\* C16: a disable, admitted by the stacking rule, of an enabled patch whose
\* functions are all marked KLP_ENFORCEMENT is not aborted by a frame
\* inside the replacement function of one of them: it returns 0 and the
\* patch ends disabled and unpatched.
C16_ForcedDisable ==
    [][\A p \in Patches : \A env \in ActEnvs :
          (Stored(p, "0") /\ Registered(p) /\ patch[p].enabled
               /\ MayDisable(p)
               /\ (\A f \in FuncsOf(p) : f.force = KLP_ENFORCEMENT)
               /\ (\E f \in FuncsOf(p) : \E a \in env.frames :
                       InRange(a, f.new_func, f.new_size))
               /\ EnabledStore(p, "0", env))
              => /\ last'.ret = OK
                 /\ ~patch'[p].enabled /\ NonePatched(p)']_vars

\* The positions only the CPU that runs the checks and the mutation takes.
ElectedPcs == {"kprobed", "calltrace", "mutate", "inc"}

\* The rendezvous as it stands: every step of the checks and the mutation
\* was run by the elected CPU, no other CPU is at such a step, a run that
\* is over had its checks run, and a CPU that is not the elected one is
\* out of its spin loop only if the elected CPU has returned and no CPU
\* is still to arrive.
ElectionHolds ==
    /\ \A w \in ran : pd.elected # 0 /\ w[1] = pd.elected
    /\ \A c \in Cpus : cpu[c].pc \in ElectedPcs => c = pd.elected
    /\ AllDone => <<pd.elected, "klp_check_patch_kprobed">> \in ran
    /\ \A c \in Cpus :
           (c # pd.elected /\ cpu[c].pc \in {"isb", "done"})
               => /\ pd.elected # 0
                  /\ cpu[pd.elected].pc = "done"
                  /\ \A d \in Cpus : cpu[d].pc # "start"

\* C17: in one stop_machine() run exactly one CPU, the one whose
\* atomic_inc_return gave 1, runs the kprobe check, the activeness check
\* and enable_patch or disable_patch, the registry changes only in that
\* CPU's mutation step, and no other CPU leaves its spin loop before that
\* CPU has finished and every CPU has arrived.
C17_Election ==
    /\ []ElectionHolds
    /\ [][(pd.fn # "none" /\ pd'.fn # "none" /\ Kernel' # Kernel)
             => /\ pd.elected # 0
                /\ cpu[pd.elected].pc = "mutate"
                /\ cpu'[pd.elected].pc = "inc"]_vars

\* C17 witness: every CPU has arrived, the elected CPU has run
\* enable_patch and not yet made its last increment, and every other CPU
\* is held in the spin loop.
C17_Witness ==
    /\ pd.fn = "klp_try_enable_patch" /\ pd.elected # 0
    /\ pd.cpu_count = num_online_cpus
    /\ cpu[pd.elected].pc = "inc"
    /\ <<pd.elected, "enable_patch">> \in ran
    /\ patch[pd.patch].enabled
    /\ \A c \in Cpus \ {pd.elected} : cpu[c].pc \in {"spin", "relax"}

\* C18: under fair scheduling of the CPUs every stop_machine() run ends
\* with every CPU returned from fn and cpu_count at num_online_cpus() + 1,
\* whichever path the elected CPU took, and cpu_count never goes beyond.
C18_Termination ==
    /\ (pd.fn # "none")
           ~> (AllDone /\ pd.cpu_count = num_online_cpus + 1)
    /\ [](pd.cpu_count <= num_online_cpus + 1)

\* C18 witness: a run whose elected CPU left on the activeness error path
\* is over: every CPU has returned and cpu_count is num_online_cpus() + 1.
C18_Witness ==
    /\ AllDone /\ pd.cpu_count = num_online_cpus + 1
    /\ cpu[pd.elected].ret = "EAGAIN"
    /\ \A c \in Cpus \ {pd.elected} : cpu[c].ret = OK

\* The functions of every patch that are patched now.
PatchedFuncs ==
    UNION {{f \in FuncsOf(p) : f.patched} : p \in Patches}

\* Every patched function has its node in the table and is on that node's
\* stack.
StackedHaveNode ==
    \A p \in Patches : \A i \in DOMAIN FuncRefs(patch[p]) :
        LET r == FuncRefs(patch[p])[i]
            f == FuncOf(Kernel, p, r)
        IN  f.patched
                => /\ klp_find_func_node(klp_func_list, f.old_func) # 0
                   /\ \E k \in DOMAIN FuncStack(Kernel, f.old_func) :
                          FuncStack(Kernel, f.old_func)[k] = <<p, r[1], r[2]>>

\* C19 as stated: in every state a node is in klp_func_list if and only if
\* its function stack is not empty.
C19_NodeIffStack ==
    /\ StackedHaveNode
    /\ \A n \in DOMAIN klp_func_list : klp_func_list[n].func_stack # << >>

\* C19 amended: in every state a function on a stack has its node in
\* klp_func_list, and a node of klp_func_list has an empty stack only
\* while an enable or disable request is between klp_mem_prepare and
\* klp_mem_recycle, and then only the node of an old function of the patch
\* that request is about.
C19_NodeInvariant ==
    /\ StackedHaveNode
    /\ \A n \in DOMAIN klp_func_list :
           klp_func_list[n].func_stack = << >>
               => /\ pd.fn # "none"
                  /\ \E f \in FuncsOf(pd.patch) :
                         f.old_func = klp_func_list[n].old_func

\* C19 witness: inside an enable request the table holds the node of an
\* enabled patch's function, its stack not empty, next to a node that
\* klp_mem_prepare published with an empty stack.
C19_Witness ==
    /\ pd.fn = "klp_try_enable_patch"
    /\ \E n \in DOMAIN klp_func_list : klp_func_list[n].func_stack = << >>
    /\ \E n \in DOMAIN klp_func_list : klp_func_list[n].func_stack # << >>

\* No reader is about to read, or holds as its result, a node that was
\* given back to the allocator.
NoUseAfterFree ==
    \A r \in Readers :
        /\ reader[r].pc = "deref" => ~Freed(reader[r].pos)
        /\ reader[r].found # 0 => ~Freed(reader[r].found)

\* A node that was given back is not in klp_func_list.
FreedUnlinked == \A z \in retired : z.freed => ~Linked(z.old_func)

\* A node is given back only by arch_klp_mem_free in func_node_free, when
\* it is off the list and every reader the grace period waited for has
\* left.
FreedAfterGrace ==
    \A z \in retired' :
        (z.freed /\ [z EXCEPT !.freed = FALSE] \in retired)
            => /\ writer.pc = "kfree" /\ writer.node = z.old_func
               /\ writer.waiting = {}
               /\ ~Linked(z.old_func)

\* No registered patch has a function that replaces address a.
Gone(a) ==
    \A p \in Patches :
        klp_is_patch_registered(Kernel, p)
            => \A f \in FuncsOf(p) : f.old_func # a

\* A lookup for address a finds no node: none is linked and no reader
\* holds one as its result.
NoNodeFor(a) ==
    /\ ~Linked(a)
    /\ \A r \in Readers : reader[r].key = a => reader[r].found = 0

\* C20: a node is freed only after it was unlinked from klp_func_list and
\* the grace period that followed has elapsed, no reader inside a
\* read-side critical section ever reads a freed node, klp_mem_recycle
\* always comes to its end, and once no registered patch replaces an
\* address every lookup for it finds no node.
C20_Reclamation ==
    /\ [](NoUseAfterFree /\ FreedUnlinked)
    /\ [][FreedAfterGrace]_vars
    /\ (writer.pc # "idle") ~> (writer.pc = "idle")
    /\ [](\A a \in Keys : Gone(a) => NoNodeFor(a))

\* C20 witness: a reader that started its lookup before the unlink is at
\* the node, which is off the list and not freed, and the grace period
\* waits for that reader.
C20_Witness ==
    /\ writer.pc = "wait"
    /\ ~Linked(writer.node) /\ ~Freed(writer.node)
    /\ \E r \in writer.waiting :
           reader[r].pc = "deref" /\ reader[r].pos = writer.node

\* The old addresses that have a node in klp_func_list.
NodeAddrs == {klp_func_list[n].old_func : n \in DOMAIN klp_func_list}

\* klp_func_list holds no two nodes of one old address.
NoTwinNodes ==
    \A m, n \in DOMAIN klp_func_list :
        klp_func_list[m].old_func = klp_func_list[n].old_func => m = n

\* What an enable of patch p under env does to the table: after a success
\* the nodes are those there were and one for every old address of the
\* patch that had none; a node whose allocation or snapshot fails is not
\* in the table afterwards, the enable returns -ENOMEM and the rendezvous
\* is not entered; a failing allocator is not met by an address that has
\* its node already.
AcquireStep(p, env) ==
    /\ last'.ret = OK
           => NodeAddrs' = NodeAddrs \cup {f.old_func : f \in FuncsOf(p)}
    /\ \A a \in env.alloc_fail :
           (a \in {f.old_func : f \in FuncsOf(p)} /\ a \notin NodeAddrs
                /\ MayEnable(p))
               => /\ a \notin NodeAddrs'
                  /\ last'.ret = "ENOMEM"
                  /\ "klp_stop_machine" \notin last'.trace
                  /\ NodeAddrs' = NodeAddrs
    /\ (env.alloc_fail # {} /\ MayEnable(p)
            /\ \A f \in FuncsOf(p) :
                   f.old_func \in env.alloc_fail => f.old_func \in NodeAddrs)
           => last'.ret = OK

\* C21: func_node_alloc returns the node of the old address when the table
\* has one and otherwise allocates, snapshots and publishes a new one, so
\* klp_func_list never holds two nodes of one old address and a node whose
\* allocation or snapshot failed is never published.
C21_NodeAcquire ==
    /\ []NoTwinNodes
    /\ [][\A p \in Patches : \A env \in Envs :
             (Stored(p, "1") /\ Registered(p) /\ ~patch[p].enabled
                  /\ EnabledStore(p, "1", env))
                 => AcquireStep(p, env)]_vars

\* C21 witness: an enable failed in klp_mem_prepare for want of a node
\* while another enabled patch keeps the node of the address both replace;
\* that node is still the only one of its address and the node that could
\* not be had is not in the table.
C21_Witness ==
    /\ last.op = "enabled_store" /\ last.buf = "1" /\ last.ret = "ENOMEM"
    /\ last.trace = {"klp_mem_prepare"}
    /\ \E q \in Patches \ {last.patch} :
           /\ Registered(q) /\ patch[q].enabled
           /\ \E f \in FuncsOf(last.patch) : \E g \in FuncsOf(q) :
                  f.old_func = g.old_func /\ f.old_func \in NodeAddrs
    /\ \E f \in FuncsOf(last.patch) : f.old_func \notin NodeAddrs
    /\ NoTwinNodes

\* The function stack of the node of old address a; empty without a node.
StackOf(a) == IF a \in NodeAddrs THEN FuncStack(Kernel, a) ELSE << >>

\* The patches on a function stack, top first.
Owners(stack) == [k \in DOMAIN stack |-> stack[k][1]]

\* Two enabled patches that replace one old address share its one node,
\* the patch enabled later (the later one in klp_patches) above the other.
Layered ==
    \A m, n \in DOMAIN klp_patches :
        (m < n /\ patch[klp_patches[m]].enabled
               /\ patch[klp_patches[n]].enabled)
            => \A f \in FuncsOf(klp_patches[m]) :
               \A g \in FuncsOf(klp_patches[n]) :
                   f.old_func = g.old_func
                       => /\ NoTwinNodes
                          /\ \E i, j \in DOMAIN StackOf(f.old_func) :
                                 /\ i < j
                                 /\ StackOf(f.old_func)[i][1] = klp_patches[n]
                                 /\ StackOf(f.old_func)[j][1] = klp_patches[m]

\* A disable of patch p that went through took the functions of p, and
\* nothing else, off the stacks; a node is left in the table exactly when
\* something is left on its stack, and every other patch is as it was.
PopStep(p) ==
    /\ \A f \in FuncsOf(p) :
           /\ Owners(StackOf(f.old_func)') =
                  SelectSeq(Owners(StackOf(f.old_func)), LAMBDA q : q # p)
           /\ (f.old_func \in NodeAddrs') <=> (StackOf(f.old_func)' # << >>)
    /\ \A q \in Patches \ {p} : patch'[q] = patch[q]
    /\ \A a \in NodeAddrs \ {f.old_func : f \in FuncsOf(p)} :
           a \in NodeAddrs' /\ StackOf(a)' = StackOf(a)

\* C22: two patches that replace one old address and are enabled one after
\* the other share one node with the later patch's function on top; a
\* disable of the later patch pops that function only, leaves the node in
\* the table with the earlier patch's function on top and that patch
\* patched, and the node leaves the table only when the earlier patch is
\* disabled as well.
C22_Layering ==
    /\ []Layered
    /\ [][\A p \in Patches :
             (Stored(p, "0") /\ Registered(p) /\ patch[p].enabled
                  /\ last'.ret = OK)
                 => PopStep(p)]_vars

\* C22 witness: the later of two enabled patches that replace one old
\* address was disabled; the node is in the table with the function of the
\* other patch, still enabled and patched, alone on its stack.
C22_Witness ==
    /\ last.op = "enabled_store" /\ last.buf = "0" /\ last.ret = OK
    /\ Registered(last.patch) /\ ~patch[last.patch].enabled
    /\ \E q \in Patches \ {last.patch} :
           /\ Registered(q) /\ patch[q].enabled /\ AllPatched(q)
           /\ \E f \in FuncsOf(last.patch) : \E g \in FuncsOf(q) :
                  /\ f.old_func = g.old_func
                  /\ Owners(StackOf(f.old_func)) = << q >>


\* An allocation that fails in klp_mem_prepare of patch p under env: the
\* allocator fails for an old address of the patch that has no node.
AllocFails(p, env) ==
    \E f \in FuncsOf(p) :
        f.old_func \in env.alloc_fail /\ f.old_func \notin NodeAddrs

\* What such an enable leaves: the table as it was, so that the nodes made
\* for the functions before the failing one are gone and the nodes other
\* patches use are kept; no function of the patch with a handle; every
\* patch as it was; an error returned and the rendezvous not entered.
PrepareUndone(p) ==
    /\ klp_func_list' = klp_func_list
    /\ \A f \in FuncsOf(p)' : f.func_node = 0
    /\ patch' = patch /\ klp_patches' = klp_patches
    /\ last'.ret = "ENOMEM"
    /\ "klp_stop_machine" \notin last'.trace

\* C28: when func_node_alloc fails for a function of the patch,
\* klp_mem_prepare releases the nodes it had newly made for the functions
\* before it, leaves the nodes in use by other patches, clears every
\* func_node handle of the patch, and the enable returns an error without
\* entering the rendezvous.
C28_PrepareFailure ==
    [][\A p \in Patches : \A env \in Envs :
          (Stored(p, "1") /\ Registered(p) /\ ~patch[p].enabled
               /\ MayEnable(p) /\ AllocFails(p, env)
               /\ EnabledStore(p, "1", env))
              => PrepareUndone(p)]_vars

\* C28 witness: an enable of a patch of two functions failed at the second
\* one after a node had been made for the first, which klp_mem_recycle
\* freed again: the table is empty and the patch holds no handle.
C28_Witness ==
    /\ last.op = "enabled_store" /\ last.buf = "1" /\ last.ret = "ENOMEM"
    /\ last.trace = {"klp_mem_prepare", "arch_klp_mem_free"}
    /\ NFuncs(last.patch) = 2
    /\ klp_func_list = << >>
    /\ \A f \in FuncsOf(last.patch) : f.func_node = 0


\* The symbols of the table that carry old name old_name in object objname.
SymbolsNamed(objname, old_name) ==
    {i \in DOMAIN SymTab :
         SymTab[i].obj = objname /\ SymTab[i].name = old_name}

\* The size of the symbol is unknown to kallsyms, negative when read as a
\* signed number, or less than the bytes rewritten in place.
BadOldSize(i) ==
    \/ SymTab[i].addr \in Unsized
    \/ SymTab[i].size < 0
    \/ SymTab[i].size < KLP_MAX_REPLACE_SIZE

\* Descriptor d has a function that resolves, by its name alone, to one
\* symbol of such a size.
HasBadOldSize(d) ==
    \E o \in DOMAIN d.objs.ent : \E f \in DOMAIN d.objs.ent[o].funcs.ent :
        LET fd == d.objs.ent[o].funcs.ent[f]
            S  == SymbolsNamed(d.objs.ent[o].name, fd.old_name)
        IN  /\ fd.old_sympos = 0
            /\ Cardinality(S) = 1
            /\ \A i \in S : BadOldSize(i)

\* Every function of a registered patch, and every node of the table, is
\* at an old function whose size is known and at least the bytes rewritten.
SizesAdequate ==
    /\ \A p \in Patches :
           Registered(p) =>
               \A f \in FuncsOf(p) :
                   /\ f.old_func \notin Unsized
                   /\ f.old_size >= KLP_MAX_REPLACE_SIZE
    /\ \A a \in NodeAddrs :
           \E i \in DOMAIN SymTab :
               SymTab[i].addr = a /\ ~BadOldSize(i)

\* C26: a function whose resolved old size is unknown, negative as a signed
\* number or smaller than KLP_MAX_REPLACE_SIZE makes the registration fail
\* and leaves the patch off klp_patches; hence no patch that can be enabled
\* has such a function and no node (no rewritten code) is at one.
C26_SizeRefused ==
    /\ []SizesAdequate
    /\ [][\A p \in Patches : \A d \in Descriptors(p) :
             (Called("register", p) /\ ~Registered(p)
                  /\ last'.trace = OldNames(d) /\ HasBadOldSize(d)
                  /\ Register(p, d, NoRegFault))
                 => /\ last'.ret \in {"ENOENT", "EINVAL"}
                    /\ ~Registered(p)'
                    /\ klp_patches' = klp_patches
                    /\ klp_func_list' = klp_func_list]_vars

\* C26 witness: the registration of a patch that replaces foo and then a
\* function of unknown size has failed with -ENOENT beside an enabled
\* patch; the patch is not registered and the table has the one node of
\* the enabled patch.
C26_Witness ==
    /\ last.op = "register" /\ last.ret = "ENOENT"
    /\ last.trace = {"foo", "nosz"}
    /\ ~Registered(last.patch)
    /\ \E q \in Patches : Registered(q) /\ patch[q].enabled
    /\ NodeAddrs = {SymTab[1].addr}


\* Descriptor d has an object that names a module which is not loaded or
\* is still coming.
NamesAbsentModule(d) ==
    \E o \in DOMAIN d.objs.ent :
        LET name == d.objs.ent[o].name
        IN  /\ name # NULL
            /\ \/ name \notin TargetModules
               \/ ModuleState[name] = "MODULE_STATE_COMING"

\* C27: the registration of a patch with an object that names a module
\* which is not loaded, or still coming, is refused with an error; the
\* patch is not added to klp_patches and no module reference taken by the
\* call remains held.
C27_ModuleRefused ==
    [][\A p \in Patches : \A d \in Descriptors(p) :
          (Called("register", p) /\ ~Registered(p)
               /\ last'.trace = OldNames(d) /\ NamesAbsentModule(d)
               /\ Register(p, d, NoRegFault))
              => /\ last'.ret \in {"ENOPKG", "EINVAL"}
                 /\ ~Registered(p)'
                 /\ klp_patches' = klp_patches
                 /\ mod_refs' = mod_refs]_vars

\* C27 witness: the registration of a patch whose one object names the
\* module that is still coming was refused with -EINVAL; the patch is not
\* registered and the module has no reference, while a registered patch
\* holds its reference on the loaded module.
C27_Witness ==
    /\ last.op = "register" /\ last.ret = "EINVAL"
    /\ last.trace = {"mbar"}
    /\ ~Registered(last.patch)
    /\ mod_refs.target["m3"] = 0
    /\ \E q \in Patches : Registered(q) /\ ObjRefs(q, "m1") = 1


\* The addresses of the occurrences of the name asked for in the object
\* asked for, in table order.
Occurrences ==
    LET S == SelectSeq(resolver.table,
                       LAMBDA s : s.obj = resolver.objname
                                    /\ s.name = resolver.name)
    IN  [k \in DOMAIN S |-> S[k].addr]

\* The reference answer: the only occurrence for position 0, the k-th one
\* for position k, and a failure with address 0 otherwise.
Reference ==
    LET occ == Occurrences
        k   == resolver.sympos
    IN  IF k = 0 /\ Len(occ) = 1 THEN [ret |-> OK, addr |-> occ[1]]
        ELSE IF k > 0 /\ Len(occ) >= k THEN [ret |-> OK, addr |-> occ[k]]
        ELSE [ret |-> "EINVAL", addr |-> 0]

Answered == resolver.ret # "none"

Agrees ==
    Answered => resolver.ret = Reference.ret /\ resolver.addr = Reference.addr

\* C25: klp_find_object_symbol agrees with the reference on every symbol
\* table: it fails for a name that does not occur; for position 0 it
\* returns the address iff the name occurs once and fails when it occurs
\* more often; for position k > 0 it returns the address of the k-th
\* occurrence in table order iff there are at least k; the same call on the
\* same table gives the same answer, and every failure leaves address 0.
C25_Resolver ==
    /\ []Agrees
    /\ [][Again => (resolver'.ret = resolver.ret
                        /\ resolver'.addr = resolver.addr)]_vars


\* Caller c is inside the section klp_mutex protects.
Inside(c) == caller[c].pc \in {"section", "unlock"}

\* At most one caller is inside, and it is the holder of klp_mutex.
OneInside ==
    /\ \A c, d \in Callers : (Inside(c) /\ Inside(d)) => c = d
    /\ \A c \in Callers : Inside(c) => klp_mutex = c

\* C23: at most one of register, enable, disable, unregister and the state
\* listing is inside its section under klp_mutex at any instant, whatever
\* the interleaving of the callers, and every write to klp_patches, to an
\* enabled flag, to a patched flag and to klp_func_list is made by the
\* caller that holds klp_mutex, inside its section (which contains the
\* rendezvous it starts).
C23_Serialization ==
    /\ []OneInside
    /\ [][<<klp_patches, patch, klp_func_list>>'
              # <<klp_patches, patch, klp_func_list>>
             => \E c \in Callers :
                    /\ klp_mutex = c /\ klp_mutex' = c
                    /\ caller[c].pc = "section"
                    /\ caller'[c].pc = "unlock"
                    /\ \A d \in Callers \ {c} : caller'[d] = caller[d]]_vars

\* C23 witness: one caller has enabled a patch and is still inside its
\* section, with klp_mutex, while the other waits in mutex_lock to
\* unregister that patch.
C23_Witness ==
    \E c, d \in Callers :
        /\ caller[c].op = "enabled_store" /\ caller[c].buf = "1"
        /\ caller[c].pc = "unlock" /\ caller[c].ret = OK
        /\ klp_mutex = c
        /\ patch[caller[c].patch].enabled
        /\ caller[d].op = "unregister" /\ caller[d].pc = "lock"
        /\ caller[d].patch = caller[c].patch

\* A caller drops the kobject and waits for its release callback only
\* without klp_mutex.
PutOutsideMutex ==
    \A c \in Callers : caller[c].pc \in {"put", "wait"} => klp_mutex # c

\* A call that dropped the kobject returns after the release callback ran.
ReleasedAtReturn ==
    \A c \in Callers :
        (caller[c].pc = "done" /\ caller[c].put)
            => /\ kobj[caller[c].patch].finish
               /\ kobj[caller[c].patch].refs = 0

\* Caller c is in a call and its next step can be taken: mutex_lock needs
\* the mutex free and wait_for_completion the completion done; no other
\* step waits.
Ready(c) ==
    /\ caller[c].pc # "idle"
    /\ caller[c].pc = "lock" => klp_mutex = 0
    /\ caller[c].pc = "wait" => kobj[caller[c].patch].finish

\* Whenever a call is under way, some call under way can take a step.
NoDeadlock ==
    (\E c \in Callers : caller[c].pc # "idle") => \E c \in Callers : Ready(c)

\* C24: klp_unregister_patch, and klp_register_patch on its error exit,
\* drop the kobject of the patch and wait for its release callback only
\* after klp_mutex is released, and return after that callback has run;
\* so a writer of the attribute that holds the kobject while it waits for
\* klp_mutex never deadlocks with an unregistration, and when it gets the
\* mutex it finds the patch unregistered and returns an error.
C24_DeferredRelease ==
    /\ [](PutOutsideMutex /\ ReleasedAtReturn /\ NoDeadlock)
    /\ [][\A c \in Callers :
             (caller[c].op = "enabled_store" /\ caller[c].pc = "section"
                  /\ caller'[c].pc = "unlock"
                  /\ ~Registered(caller[c].patch))
                 => /\ caller'[c].ret = "EINVAL"
                    /\ registry' = registry]_vars

\* C24 witness: a writer of the attribute got klp_mutex after the patch
\* was unregistered and has returned -EINVAL from its section, with the
\* kobject still held, while the unregistering caller waits for the
\* release callback.
C24_Witness ==
    \E c, d \in Callers :
        /\ caller[c].op = "enabled_store" /\ caller[c].pc = "done"
        /\ caller[c].ret = "EINVAL"
        /\ caller[d].op = "unregister" /\ caller[d].pc = "wait"
        /\ caller[d].patch = caller[c].patch
        /\ ~Registered(caller[d].patch)
        /\ ~kobj[caller[d].patch].finish
        /\ kobj[caller[d].patch].refs = 1


\* At most one patch is marked as being in transition, and it is the one
\* klp_transition_patch names; the target is defined exactly meanwhile.
OneTransition ==
    /\ \A p \in Patches : transition[p] => klp_transition_patch = p
    /\ (klp_transition_patch = 0) = (klp_target_state = KLP_UNDEFINED)

\* While a transition is under way, __klp_enable_patch on any patch and
\* __klp_disable_patch on any enabled patch answer -EBUSY and change
\* nothing.
BusyWhileTransition ==
    klp_transition_patch # 0 =>
        \A q \in Patches :
            /\ \A env \in GradualEnvs :
                   enable_patch_gradual(Gradual, q, env)
                       = [ret |-> "EBUSY", G |-> Gradual, trace |-> {}]
            /\ patch[q].enabled =>
                   disable_patch_gradual(Gradual, q, {})
                       = [ret |-> "EBUSY", G |-> Gradual, trace |-> {}]

\* C29: with ftrace at most one patch is in transition at any instant:
\* while klp_transition_patch is set, a call of klp_enable_patch that
\* reaches __klp_enable_patch and a write of 0 that reaches
\* __klp_disable_patch return -EBUSY, klp_init_transition is not called,
\* no object is patched or unpatched, no enabled flag changes and the
\* transition under way is left as it is.
C29_OneTransition ==
    /\ [](OneTransition /\ BusyWhileTransition)
    /\ [][\A q \in Patches :
            /\ \A env \in GradualEnvs :
                   ~(/\ klp_transition_patch # 0
                     /\ ~env.init_fail
                     /\ last'.op = "klp_enable_patch" /\ last'.patch = q
                     /\ EnablePatch(q, env)
                     /\ ~(/\ last'.ret = "EBUSY"
                          /\ "klp_init_transition" \notin last'.trace
                          /\ UNCHANGED <<klp_transition_patch,
                                         klp_target_state, task, transition>>
                          /\ \A r \in Patches \ {q} : patch'[r] = patch[r]
                          /\ ~patch[q].enabled /\ ~patch'[q].enabled
                          /\ patch'[q].obj_list = << >>))
            /\ ~(/\ klp_transition_patch # 0
                 /\ klp_transition_patch # q
                 /\ patch[q].enabled
                 /\ last'.op = "enabled_store" /\ last'.patch = q
                 /\ EnabledStoreGradual(q, "0")
                 /\ ~(/\ last'.ret = "EBUSY"
                      /\ "klp_init_transition" \notin last'.trace
                      /\ UNCHANGED gradual
                      /\ patch' = patch))]_vars

\* The write of 0 to an enabled patch was refused with -EBUSY while
\* another patch is on its way to the unpatched side.
C29_Witness ==
    /\ last.op = "enabled_store" /\ last.buf = "0"
    /\ last.ret = "EBUSY"
    /\ patch[last.patch].enabled
    /\ klp_transition_patch \notin {0, last.patch}
    /\ klp_target_state = KLP_UNPATCHED
    /\ \E t \in Tasks : task[t] = KLP_PATCHED


\* C30: with ftrace a transition is reversed in both directions: a write
\* to "enabled" of the value opposite to the enabled flag of the patch in
\* transition succeeds through klp_reverse_transition, which flips the
\* flag and the target and leaves the patch in transition and the tasks
\* where they are, without klp_init_transition and without -EBUSY; a
\* write of 1 to a disabled patch that is not in transition is refused
\* with an error and changes nothing.
C30_Reverse ==
    [][\A p \in Patches, buf \in {"0", "1"} :
         /\ ~(/\ p = klp_transition_patch
              /\ kstrtobool(buf).res # patch[p].enabled
              /\ last'.op = "enabled_store" /\ last'.patch = p
              /\ EnabledStoreGradual(p, buf)
              /\ ~(/\ last'.ret = OK
                   /\ "klp_reverse_transition" \in last'.trace
                   /\ "klp_init_transition" \notin last'.trace
                   /\ klp_transition_patch' = p
                   /\ klp_target_state' = Opposite(klp_target_state)
                   /\ klp_target_state'
                          = (IF buf = "1" THEN KLP_PATCHED
                             ELSE KLP_UNPATCHED)
                   /\ patch'[p] = [patch[p] EXCEPT !.enabled = ~@]
                   /\ \A q \in Patches \ {p} : patch'[q] = patch[q]
                   /\ UNCHANGED <<task, transition, klp_patches, kobj>>))
         /\ ~(/\ p # klp_transition_patch
              /\ ~patch[p].enabled
              /\ buf = "1"
              /\ last'.op = "enabled_store" /\ last'.patch = p
              /\ EnabledStoreGradual(p, buf)
              /\ ~(/\ last'.ret = "EINVAL"
                   /\ last'.trace = {}
                   /\ UNCHANGED <<registry, kobj, gradual>>))]_vars

\* A patch on its way out was enabled again by a write of 1: the target
\* is the patched side again while a task is already on the other one.
C30_Witness ==
    /\ last.op = "enabled_store" /\ last.buf = "1" /\ last.ret = OK
    /\ "klp_reverse_transition" \in last.trace
    /\ klp_transition_patch = last.patch
    /\ klp_target_state = KLP_PATCHED
    /\ patch[last.patch].enabled
    /\ \E t, u \in Tasks : task[t] = KLP_UNPATCHED /\ task[u] = KLP_PATCHED


\* C31: with ftrace the force trigger acts on the patch in transition
\* only: a write of a true value to "force" of any other patch returns
\* -EINVAL, does not call klp_force_transition and changes nothing; a
\* write of a false value succeeds without taking klp_mutex and changes
\* nothing; and a write that moves a task or marks a patch as forced was
\* made to the patch in transition.
C31_ForceOnlyTransition ==
    [][\A p \in Patches, buf \in {"1", "0"} :
         ~(/\ last'.op = "force_store" /\ last'.patch = p
           /\ ForceStore(p, buf)
           /\ ~(/\ (buf = "1" /\ p # klp_transition_patch) =>
                       /\ last'.ret = "EINVAL"
                       /\ "klp_force_transition" \notin last'.trace
                       /\ UNCHANGED <<registry, kobj, gradual>>
                /\ buf = "0" =>
                       /\ last'.ret = OK
                       /\ last'.trace = {}
                       /\ UNCHANGED <<registry, kobj, gradual>>
                /\ (task' # task \/ forced' # forced) =>
                       /\ p = klp_transition_patch
                       /\ buf = "1"
                       /\ "klp_force_transition" \in last'.trace))]_vars

\* The true value was written to "force" of a patch while another patch
\* is stuck in its transition: the write was refused and the task that
\* holds the transition up is where it was.
C31_Witness ==
    /\ last.op = "force_store" /\ last.buf = "1" /\ last.ret = "EINVAL"
    /\ klp_transition_patch \notin {0, last.patch}
    /\ \E t \in Tasks : task[t] # klp_target_state
    /\ ~forced[last.patch] /\ ~forced[klp_transition_patch]


\* No patch on the list touches module m: the object that names it is
\* not patched, none of its functions is, and it does not refer to it.
Untouched(m) ==
    \A i \in DOMAIN klp_patches :
        \A o \in DOMAIN patch[klp_patches[i]].obj_list :
            Let(patch[klp_patches[i]].obj_list[o], LAMBDA obj :
                obj.name = m =>
                    /\ ~obj.patched
                    /\ obj.mod = NULL
                    /\ \A j \in DOMAIN obj.func_list :
                           ~obj.func_list[j].patched)

\* The call of klp_module_coming meets a failure: the step that fails
\* belongs to a patch on the list that has an object for the module.
MeetsFailure(m, env) ==
    /\ env.fail # "none"
    /\ klp_is_patch_registered(Gradual, env.at)
    /\ ObjectOf(patch[env.at], m) # 0

\* C32: with ftrace, when applying a patch on the list to a loading
\* module fails at any step (initialisation of the object, pre-patch
\* callback, patching), klp_module_coming returns an error, klp_alive of
\* the module is false and no patch on the list touches the module: the
\* patches applied earlier in the call are unwound.  Without a failure
\* the call succeeds.
C32_ComingUnwound ==
    [][\A m \in GradualModules, env \in ComingEnvs :
         ~(/\ last'.op = "klp_module_coming" /\ last'.buf = m
           /\ ModuleComing(m, env)
           /\ ~(/\ MeetsFailure(m, env) = (last'.ret # OK)
                /\ last'.ret # OK =>
                       /\ ~klp_alive'[m]
                       /\ Untouched(m)'
                       /\ klp_patches' = klp_patches
                       /\ \A p \in Patches :
                              /\ patch'[p].enabled = patch[p].enabled
                              /\ \A o \in DOMAIN patch[p].obj_list :
                                     patch[p].obj_list[o].name # m =>
                                         patch'[p].obj_list[o]
                                             = patch[p].obj_list[o]))]_vars

\* klp_module_coming failed at the second of two patches that both have
\* an object for module m1, after the relocations of that object were
\* written: the first patch, which had been applied, is clean again.
C32_Witness ==
    /\ last.op = "klp_module_coming" /\ last.buf = "m1" /\ last.ret # OK
    /\ Len(klp_patches) = 2
    /\ \A i \in 1 .. 2 : ObjectOf(patch[klp_patches[i]], "m1") # 0
    /\ relocs = {<<klp_patches[2], "m1">>}
    /\ ~klp_alive["m1"]
    /\ patch[klp_patches[1]].enabled


\* C33: with ftrace, when klp_module_going returns, for every patch on
\* the list the object that names the module is unpatched, its
\* relocations are cleared, it does not refer to the module and the old
\* addresses of its functions are reset; the module is not alive; the
\* objects for other modules and for the base image, the list and the
\* enabled flags are as they were.  The call is one step under klp_mutex.
C33_GoingCleaned ==
    [][\A m \in GradualModules :
         ~(/\ last'.op = "klp_module_going" /\ last'.buf = m
           /\ ModuleGoing(m)
           /\ ~(/\ ~klp_alive'[m]
                /\ Untouched(m)'
                /\ \A p \in Patches :
                       /\ klp_is_patch_registered(Gradual, p) =>
                              <<p, m>> \notin relocs'
                       /\ patch'[p].enabled = patch[p].enabled
                       /\ DOMAIN patch'[p].obj_list = DOMAIN patch[p].obj_list
                       /\ \A o \in DOMAIN patch[p].obj_list :
                              IF patch[p].obj_list[o].name = m
                              THEN \A j \in DOMAIN
                                       patch'[p].obj_list[o].func_list :
                                       patch'[p].obj_list[o].func_list[j]
                                           .old_func = 0
                              ELSE patch'[p].obj_list[o]
                                       = patch[p].obj_list[o]
                /\ UNCHANGED <<klp_patches, kobj, mod_refs,
                               klp_transition_patch, klp_target_state,
                               task, transition, forced, klp_mutex>>))]_vars

\* klp_module_going reverted two patches on module m1, one of them in
\* transition: their objects for the base image are still patched.
C33_Witness ==
    /\ last.op = "klp_module_going" /\ last.buf = "m1"
    /\ {"klp_unpatch_object", "klp_clear_object_relocs"} \subseteq last.trace
    /\ Len(klp_patches) = 2
    /\ klp_transition_patch # 0
    /\ \A i \in 1 .. 2 :
           /\ ObjectOf(patch[klp_patches[i]], "m1") # 0
           /\ \E o \in DOMAIN patch[klp_patches[i]].obj_list :
                  /\ patch[klp_patches[i]].obj_list[o].name = NULL
                  /\ patch[klp_patches[i]].obj_list[o].patched
    /\ Untouched("m1")
    /\ relocs = {}


\* The ranges function f is expected to hand to the stack walker on an
\* enable: none when it is patched or marked KLP_ENFORCEMENT, the old
\* function when the stack of its node is empty, the replacement on top
\* of that stack otherwise.
ExpectedRanges(f) ==
    IF f.patched \/ f.force = KLP_ENFORCEMENT THEN << >>
    ELSE IF HasActive(f.old_func)
         THEN << Range(ActiveTop(f.old_func).new_func,
                       ActiveTop(f.old_func).new_size, f.force) >>
    ELSE << Range(f.old_func, f.old_size, f.force) >>

\* The registry at the moment the activeness check of an enable of patch
\* p runs: after klp_mem_prepare gave every function its node.
Prepared(p) ==
    IF patch[p].enabled THEN Kernel
    ELSE klp_mem_prepare(Kernel, p, NoFault).K

\* Addresses in and around the old functions and the replacements.
ProbeAddrs ==
    UNION {{a - 1, a, a + 1, a + 2, a + 3, a + 4} :
               a \in OldFuncs \cup {NewFunc(p, k) : p \in Patches,
                                                    k \in 1 .. 2}}

\* C34: on an enable every function of the patch that is neither patched
\* nor marked KLP_ENFORCEMENT hands the stack walker [old_func, old_func +
\* old_size) when the stack of its node is empty and [new_func, new_func +
\* new_size) of the function on top of that stack otherwise, a patched or
\* enforced function hands it nothing, and an address is found in the
\* list exactly when it lies in one of these ranges, of which only the
\* first KLP_MAX_REPLACE_SIZE bytes count under KLP_STACK_OPTIMIZE.
C34_RangeSelection ==
    \A p \in Patches :
        Registered(p) =>
            Let(Prepared(p), LAMBDA K1 :
                /\ \A i \in DOMAIN FuncRefs(patch[p]) :
                       arch_klp_check_activeness_func(
                           K1, FuncOf(K1, p, FuncRefs(patch[p])[i]), TRUE)
                           = ExpectedRanges(
                                 FuncOf(Kernel, p, FuncRefs(patch[p])[i]))
                /\ \A a \in ProbeAddrs :
                       (check_func_list(
                            klp_check_activeness_func(K1, p, TRUE), a) # OK)
                           = (\E f \in FuncsOf(p) :
                                  /\ ~f.patched
                                  /\ f.force # KLP_ENFORCEMENT
                                  /\ InActiveRange(a, f)))

\* A disabled patch whose replacement of foo is marked KLP_STACK_OPTIMIZE
\* was refused because a stack held a frame inside the replacement of foo
\* that another, enabled patch has on top of the node.
C34_Witness ==
    /\ last.op = "enabled_store" /\ last.buf = "1" /\ last.ret = "EAGAIN"
    /\ Registered(last.patch) /\ ~patch[last.patch].enabled
    /\ \E f \in FuncsOf(last.patch) :
           /\ f.force = KLP_STACK_OPTIMIZE
           /\ HasActive(f.old_func)
           /\ ExpectedRanges(f)
                  = << Range(ActiveTop(f.old_func).new_func,
                             ActiveTop(f.old_func).new_size,
                             KLP_STACK_OPTIMIZE) >>
           /\ last.frames = {ActiveTop(f.old_func).new_func + 1}


\* The flags of patch p: enabled, and patched of every object and function.
Flags(p) ==
    [enabled |-> patch[p].enabled,
     objs |-> [o \in DOMAIN patch[p].obj_list |->
                   patch[p].obj_list[o].patched],
     funcs |-> [o \in DOMAIN patch[p].obj_list |->
                    [j \in DOMAIN patch[p].obj_list[o].func_list |->
                         patch[p].obj_list[o].func_list[j].patched]]]

\* The request in flight is about a patch one of whose old functions
\* carries a kprobe on some byte.
ProbedRun ==
    /\ pd.fn # "none"
    /\ \E f \in FuncsOf(pd.patch) :
           \E a \in pd.env.kprobes : InRange(a, f.old_func, f.old_size)

\* klp_check_patch_kprobed finds a kprobe exactly when one lies on a byte
\* of an old function of the patch.
KprobedExact ==
    \A p \in Patches, a \in ProbeAddrs :
        klp_check_patch_kprobed(Kernel, p, [NoFault EXCEPT !.kprobes = {a}])
            = (\E f \in FuncsOf(p) : InRange(a, f.old_func, f.old_size))

\* During such a request nobody gets to the activeness check or to
\* enable_patch or disable_patch, and the patch is as the request found it.
ProbedRunStops ==
    ProbedRun =>
        /\ \A c \in Cpus : cpu[c].pc \notin {"calltrace", "mutate"}
        /\ \A w \in ran : w[2] = "klp_check_patch_kprobed"
        /\ patch[pd.patch].enabled = (pd.fn = "klp_try_disable_patch")
        /\ \A f \in FuncsOf(pd.patch) :
               f.patched = (pd.fn = "klp_try_disable_patch")

\* C35: when a byte of [old_func, old_func + old_size) of a function of a
\* patch carries a kprobe, an enable and a disable of the patch that get
\* to the rendezvous fail there with -EINVAL, before the activeness check
\* and before any function is patched or unpatched, and the flags of
\* every patch stay as they were.
C35_KprobeRefused ==
    /\ [](KprobedExact /\ ProbedRunStops)
    /\ [][ProbedRun =>
            /\ \A p \in Patches : Flags(p)' = Flags(p)
            /\ Finish =>
                   /\ last'.ret = "EINVAL"
                   /\ last'.trace = {"klp_check_patch_kprobed"}]_vars

\* A disable was refused in the rendezvous because of a kprobe on the
\* second byte of foo: the patch is still enabled and patched.
C35_Witness ==
    /\ last.op = "enabled_store" /\ last.buf = "0" /\ last.ret = "EINVAL"
    /\ last.trace = {"klp_check_patch_kprobed"}
    /\ pd.fn = "none"
    /\ patch[last.patch].enabled /\ AllPatched(last.patch)


\* C36: with stacking enforced, between any two calls (register, enable,
\* disable, unregister, successful or not) the enabled patches are the
\* first patches of klp_patches: no enabled patch follows a disabled one.
C36_EnabledPrefix ==
    config.STACK =>
        \A i, j \in DOMAIN klp_patches :
            (i < j /\ patch[klp_patches[j]].enabled)
                => patch[klp_patches[i]].enabled

\* With stacking enforced the enable of the second patch of the list has
\* just failed inside enable_patch: the first patch is enabled and the
\* second, rolled back, is disabled.
C36_Witness ==
    /\ config.STACK
    /\ Len(klp_patches) = 2
    /\ patch[klp_patches[1]].enabled /\ ~patch[klp_patches[2]].enabled
    /\ last.op = "enabled_store" /\ last.buf = "1" /\ last.ret # OK
    /\ last.patch = klp_patches[2]
    /\ "enable_patch" \in last.trace


ObjectsPatched(p) ==
    \A o \in DOMAIN patch[p].obj_list : patch[p].obj_list[o].patched

\* Every function of patch p has patched set and holds a node.
FuncsPatched(p) ==
    \A o \in DOMAIN patch[p].obj_list :
        \A f \in DOMAIN patch[p].obj_list[o].func_list :
            /\ patch[p].obj_list[o].func_list[f].patched
            /\ patch[p].obj_list[o].func_list[f].func_node # 0

\* C38: Without ftrace, whenever klp_mutex is free (between two calls),
\* every registered patch has enabled set iff every one of its objects has
\* patched set iff every one of its functions has patched set and a
\* func_node that is not NULL: no patch is seen half applied.
C38_FlagConsistency ==
    \A p \in Patches :
        Registered(p) =>
            /\ patch[p].enabled <=> ObjectsPatched(p)
            /\ ObjectsPatched(p) <=> FuncsPatched(p)


\* References the registered patches hold on target module m, one per
\* object that names it.
TargetRefs(m) ==
    LET held[k \in 0 .. Len(klp_patches)] ==
            IF k = 0 THEN 0 ELSE held[k - 1] + ObjRefs(klp_patches[k], m)
    IN  held[Len(klp_patches)]

\* C39: Without ftrace, whenever klp_mutex is free (between two calls), the
\* core holds exactly one reference on patch->mod if the patch is enabled
\* and none otherwise, and on every target module exactly one reference
\* per object of a registered patch that names it: no get is left
\* unmatched and no put is made twice, and a target module named by a
\* registered patch is pinned.
C39_ReferenceBalance ==
    /\ \A p \in Patches :
           /\ mod_refs.klp[PatchMod(p)]
                  = IF Registered(p) /\ patch[p].enabled THEN 1 ELSE 0
           /\ ~Registered(p) =>
                  \A m \in TargetModules : ObjRefs(p, m) = 0
    /\ \A m \in TargetModules :
           /\ mod_refs.target[m] = TargetRefs(m)
           /\ (\E p \in Patches :
                   /\ Registered(p)
                   /\ \E o \in DOMAIN patch[p].obj_list :
                          patch[p].obj_list[o].name = m)
                  => mod_refs.target[m] > 0

\* C39 witness: two registered patches, one enabled and one that failed to
\* enable after its module reference was taken; the module of the first is
\* held once, that of the second not at all, and m1 is held once.
C39_Witness ==
    /\ last.op = "enabled_store" /\ last.buf = "1" /\ last.ret = "EINVAL"
    /\ "enable_patch" \in last.trace
    /\ \A p \in Patches : Registered(p)
    /\ mod_refs.klp[PatchMod(last.patch)] = 0
    /\ \E q \in Patches : patch[q].enabled /\ mod_refs.klp[PatchMod(q)] = 1
    /\ mod_refs.target["m1"] = 1


\* Process i is in its critical section: past its wait loop and not yet
\* past the store that hands the turn over.
InCritical(i) == proc[i].pc \in {"cs", "store"}

\* The process whose turn the k-th entry is.
Entrant(k) == IF k % 2 = 1 THEN FirstTurn ELSE Other(FirstTurn)

\* C40: In the strict-alternation exercise the parent (process 1) and the
\* child (process 2) are never in the critical section (write_file) at the
\* same time, and the entries to it alternate 2, 1, 2, 1, ... beginning
\* with process 2: every line of the file is that of the process whose
\* turn it is, and so is every process that has entered and not written.
C40_StrictAlternation ==
    /\ ~(InCritical(1) /\ InCritical(2))
    /\ \A k \in DOMAIN file : file[k] = Entrant(k)
    /\ \A i \in Processes :
           proc[i].pc = "cs" => i = Entrant(Len(file) + 1)

\* C40 witness: the file holds the lines of 2, 1, 2 in that order and the
\* parent is in its critical section for the fourth entry.
C40_Witness ==
    /\ file = << 2, 1, 2 >>
    /\ proc[1].pc = "cs"
    /\ proc[2].pc \in {"load", "spin"}

=============================================================================
